---- MODULE Spec2Model ----
(***************************************************************************)
(* Model of nanobot's multi-tenant agent core:                             *)
(*   - WorkspaceManager (src/nanobot/workspace/manager.py)                 *)
(*   - MultiTenantAgentLoop (src/nanobot/agent/multi_tenant_loop.py)       *)
(*   - UserConfigManager (src/nanobot/services/user_config.py)             *)
(*   - ReportGenerator (src/nanobot/services/report_generator.py and       *)
(*     report_generator_simple.py), ReportScheduler (services/scheduler.py)*)
(* The loop keeps ONE shared slot (current_user_id, current_workspace and  *)
(* the four workspace-bound components).  Requests are coroutines of a     *)
(* single-threaded cooperative scheduler: a step of the model is the code  *)
(* a request runs between two suspension points (the awaited model call    *)
(* and the awaited tool execution).                                        *)
(***************************************************************************)
EXTENDS Naturals, Sequences, FiniteSets, TLC

VARIABLES
    dirs,        \* workspace directories present on disk (set of paths)
    store,       \* persisted sessions: store[path][key] = sequence of messages
    loop,        \* the shared slot of MultiTenantAgentLoop
    built,       \* number of component sets constructed so far (construction probe)
    max_iterations, \* MultiTenantAgentLoop.max_iterations
    lastSwitch,  \* observation of the last switch_workspace call
    switches,    \* number of direct switch_workspace calls made by callers
    fsOps,       \* number of create_workspace / delete_workspace calls
    pc,          \* per request: where the coroutine is suspended
    user,        \* per request: user_id argument of process_for_user
    session,     \* per request: the Session object obtained from get_or_create
    messages,    \* per request: the conversation buffer
    iteration,   \* per request: the loop counter
    calls,       \* per request: tool calls of the current model reply
    running,     \* per request: indices of calls whose execution is in flight
    toolReg,     \* per request: the registry the in-flight execution was issued on
    modelCalls,  \* per request: number of provider.chat calls made
    replies,     \* per request: kind and text of the replies received, in order
    result,      \* per request: returned content / raised error
    saves,       \* per request: the saves performed (store used, key, messages)
    trace,       \* per request: the calls made on the slot's components, in order
    addressing,  \* the (channel, chat id) each context-aware tool holds
    disk,        \* the tree under base_path: path -> directory or file content
    clock,       \* what datetime.now() returns to the next operation
    lastOp,      \* observation of the last manager operation
    made,        \* ids whose workspace was created and not deleted since
    gen,         \* the ReportGenerator: agent_loop given?, max_retries, retry_delay
    retry,       \* the frame of _call_llm_with_retry and what it did so far
    report,      \* generate_report_now: its argument, progress and outcome
    named,       \* the process_for_user calls made: tenant, key given, key used
    lastExec,    \* observation of the last tool execution through the registry
    copies,      \* per writer: the UserConfig object it holds and how far it got
    log,         \* the invocations that have returned: tenant, key, the two turns
    inbox,       \* the bus: inbound messages published and not yet consumed
    outbox,      \* the bus: outbound messages published, in order
    gw           \* run(): where it is, the message in hand, the messages consumed

vars == <<dirs, store, loop, built, max_iterations, lastSwitch, switches, fsOps,
          pc, user, session, messages, iteration, calls, running, toolReg,
          modelCalls, replies, result, saves, disk, clock, lastOp, made,
          gen, retry, report, trace, addressing, named, lastExec, copies, log,
          inbox, outbox, gw>>

reqVars == <<pc, user, session, messages, iteration, calls, running, toolReg,
             modelCalls, replies, result, saves, trace, addressing>>

diskVars == <<disk, clock, lastOp, made>>

retryVars == <<gen, retry, report>>

busVars == <<inbox, outbox, gw>>
histVars == <<named, lastExec, copies, log, busVars>>

-----------------------------------------------------------------------------
(* Bounds of the model *)

\* largest max_iterations a loop is configured with
MaxIter == 2
\* largest number of tool calls in one model reply
MaxCalls == 2
\* largest number of tool calls the model asks for in one invocation
MaxToolCalls == 4
\* direct switch_workspace calls explored
MaxSwitches == 3
\* process_for_user calls whose session keys are compared
MaxNamed == 2
\* invocations that run to their end one after the other
MaxInvocations == 3
\* create_workspace / delete_workspace calls explored
MaxFsOps == 2

Tenants == {"a", "b", "c"}
Requests == {"r1", "r2"}

-----------------------------------------------------------------------------
(* Values *)

\* Python None for a tenant id, a path, a component and a text
NoUser == "<none>"
NoPath == ""
NoObj == [kind |-> "None", id |-> 0, ws |-> NoPath]
NoText == "<None>"

\* str.startswith
StartsWith(s, prefix) ==
    Len(prefix) <= Len(s) /\ SubSeq(s, 1, Len(prefix)) = prefix

\* the fixed fallback message of process_direct
Fallback == "I've completed processing but have no response to give."

\* WorkspaceManager._get_workspace_path: base_path / f"user_{user_id}"
get_workspace_path(user_id) == "user_" \o user_id

\* WorkspaceManager.get_workspace: the path, without any existence check
get_workspace(user_id) == get_workspace_path(user_id)

\* WorkspaceManager.workspace_exists
workspace_exists(d, user_id) == get_workspace_path(user_id) \in d

Paths == {get_workspace_path(t) : t \in Tenants}

\* the empty function: a workspace without any persisted session
NoSessions == [k \in {} |-> <<>>]

\* names registered by _register_default_tools (no cron service configured)
DefaultTools == {"read_file", "write_file", "edit_file", "list_dir", "exec",
                 "web_search", "web_fetch", "message", "spawn"}

-----------------------------------------------------------------------------
(* The shared slot: __init__, _ensure_initialized, switch_workspace *)

InitLoop == [current_user_id |-> NoUser, current_workspace |-> NoPath,
             context |-> NoObj, sessions |-> NoObj,
             tools |-> NoObj, subagents |-> NoObj, cron_service |-> FALSE]

\* the loop as constructed without and with a cron service
Loops == {[InitLoop EXCEPT !.cron_service = b] : b \in BOOLEAN}

\* names _register_default_tools registers in the registry of loop l
Registered(l) == DefaultTools \cup (IF l.cron_service THEN {"cron"} ELSE {})

\* a component instance: its class, its identity and the workspace it is bound to
New(kind, id, ws) == [kind |-> kind, id |-> id, ws |-> ws]

\* the four components the loop references
Components(l) == {l.context, l.sessions, l.tools, l.subagents}

\* _ensure_initialized on slot l with n component sets built so far.
\* Raises when no workspace is active; constructs the four components for
\* current_workspace only when _context is None.
ensure_initialized(l, n) ==
    IF l.current_workspace = NoPath
    THEN [raised |-> TRUE, loop |-> l, built |-> n, held |-> {}]
    ELSE IF l.context = NoObj
    THEN LET ws == l.current_workspace
         IN [raised |-> FALSE,
             loop |-> [l EXCEPT !.context = New("ContextBuilder", n + 1, ws),
                                !.sessions = New("SessionManager", n + 1, ws),
                                !.tools = New("ToolRegistry", n + 1, ws),
                                !.subagents = New("SubagentManager", n + 1, ws)],
             built |-> n + 1,
             held |-> Components(l) \ {NoObj}]
    ELSE [raised |-> FALSE, loop |-> l, built |-> n, held |-> Components(l) \ {NoObj}]

\* variant: the reset of lines 206-210 left out
ResetComponents_Kept(l) == l

\* switch_workspace lines 206-210: drop the previous tenant's components
ResetComponents(l) ==
    [l EXCEPT !.context = NoObj, !.sessions = NoObj,
              !.tools = NoObj, !.subagents = NoObj]

\* variant: no fast path, every call rebuilds the components
switch_workspace_Rebuild(l, n, d, user_id) ==
    LET workspace == get_workspace(user_id) IN
    IF workspace \notin d
    THEN [outcome |-> "ValueError", ret |-> NoPath,
          loop |-> l, built |-> n, held |-> {}]
    ELSE LET l2 == [ResetComponents(l) EXCEPT !.current_workspace = workspace,
                                              !.current_user_id = user_id]
             e  == ensure_initialized(l2, n)
         IN [outcome |-> "switched", ret |-> workspace,
             loop |-> e.loop, built |-> e.built, held |-> e.held]

\* variant: the slot is pointed at the new tenant, and the components are
\* left for _ensure_initialized to build when there are none
switch_workspace_Lazy(l, n, d, user_id) ==
    IF user_id = l.current_user_id /\ l.current_workspace # NoPath
    THEN [outcome |-> "cached", ret |-> l.current_workspace,
          loop |-> l, built |-> n, held |-> {}]
    ELSE LET workspace == get_workspace(user_id) IN
         IF workspace \notin d
         THEN [outcome |-> "ValueError", ret |-> NoPath,
               loop |-> l, built |-> n, held |-> {}]
         ELSE LET l2 == [l EXCEPT !.current_workspace = workspace,
                                  !.current_user_id = user_id]
                  e  == ensure_initialized(l2, n)
              IN [outcome |-> "switched", ret |-> workspace,
                  loop |-> e.loop, built |-> e.built, held |-> e.held]

\* variant: the slot names the new tenant before the workspace is looked up
switch_workspace_NamesFirst(l, n, d, user_id) ==
    IF user_id = l.current_user_id /\ l.current_workspace # NoPath
    THEN [outcome |-> "cached", ret |-> l.current_workspace,
          loop |-> l, built |-> n, held |-> {}]
    ELSE LET workspace == get_workspace(user_id) IN
         IF workspace \notin d
         THEN [outcome |-> "ValueError", ret |-> NoPath,
               loop |-> [l EXCEPT !.current_user_id = user_id],
               built |-> n, held |-> {}]
         ELSE switch_workspace_Rebuild(l, n, d, user_id)

\* switch_workspace(user_id) on slot l, with d the directories on disk.
\* outcome: "cached" (fast path), "ValueError" (workspace missing), "switched".
\* held: the components the loop still referenced when construction began.
switch_workspace(l, n, d, user_id) ==
    IF user_id = l.current_user_id /\ l.current_workspace # NoPath
    THEN [outcome |-> "cached", ret |-> l.current_workspace,
          loop |-> l, built |-> n, held |-> {}]
    ELSE LET workspace == get_workspace(user_id) IN
         IF workspace \notin d
         THEN [outcome |-> "ValueError", ret |-> NoPath,
               loop |-> l, built |-> n, held |-> {}]
         ELSE LET l1 == ResetComponents(l)
                  l2 == [l1 EXCEPT !.current_workspace = workspace,
                                   !.current_user_id = user_id]
                  e  == ensure_initialized(l2, n)
              IN [outcome |-> "switched", ret |-> workspace,
                  loop |-> e.loop, built |-> e.built, held |-> e.held]

\* what a switch_workspace call leaves in lastSwitch
SwitchRecord(l, n, d, user_id, sw) ==
    [user |-> user_id, outcome |-> sw.outcome, ret |-> sw.ret,
     before |-> l, builtBefore |-> n, onDisk |-> get_workspace(user_id) \in d,
     held |-> sw.held]

NoSwitch == [user |-> NoUser, outcome |-> "none", ret |-> NoPath,
             before |-> InitLoop, builtBefore |-> 0, onDisk |-> FALSE, held |-> {}]

-----------------------------------------------------------------------------
(* Session store and tool registry (nanobot.session / nanobot.agent.tools) *)

\* a session message and the Session object held by a request
Msg(role, content) == [role |-> role, content |-> content]
NoSession == [key |-> "", messages |-> <<>>]

\* SessionManager.get_or_create(key) on the store object sm: the persisted
\* history of the key in sm's workspace, or a new empty session
get_or_create(sm, st, key) ==
    [key |-> key,
     messages |-> IF key \in DOMAIN st[sm.ws] THEN st[sm.ws][key] ELSE <<>>]

\* Session.add_message
add_message(sess, role, content) ==
    [sess EXCEPT !.messages = Append(@, Msg(role, content))]

\* SessionManager.save(session) on the store object sm: full overwrite
save(sm, st, sess) ==
    [st EXCEPT ![sm.ws] = [k \in DOMAIN @ \cup {sess.key} |->
                              IF k = sess.key THEN sess.messages ELSE @[k]]]

\* ToolRegistry.execute(name, arguments) on registry reg: an unknown name and
\* a failing tool both come back as error text
execute(reg, name, fails) ==
    IF name \notin DefaultTools THEN "Error: tool not found"
    ELSE IF fails THEN "Error: tool failed"
    ELSE "ok"

\* the tools that work on files, and the shell tool
FileTools == {"read_file", "write_file", "edit_file", "list_dir"}
ShellTools == {"exec"}

\* the directory a tool of registry reg was given at construction by
\* _register_default_tools: the file tools are constructed without
\* arguments, ExecTool with working_dir = current_workspace
BoundTo(reg, name) == IF name \in ShellTools THEN reg.ws ELSE NoPath

\* whether the tool keeps its operations inside the directory it was given:
\* a tool that was given none cannot, the shell tool does when
\* exec_config.restrict_to_workspace is set
Confined(reg, name, restrict) == BoundTo(reg, name) # NoPath /\ restrict

\* a tool of registry reg is run on a path inside workspace target: the
\* workspace its operation reads or writes (NoPath when it is refused)
run_tool(reg, name, target, restrict) ==
    IF name \notin FileTools \cup ShellTools THEN NoPath
    ELSE IF Confined(reg, name, restrict) /\ target # BoundTo(reg, name) THEN NoPath
    ELSE target

NoExec == [name |-> "", via |-> NoObj, target |-> NoPath, restrict |-> FALSE,
           touched |-> NoPath]

\* a turn of the conversation buffer
Turn(role, content, tool_calls, tool_call_id, name) ==
    [role |-> role, content |-> content, tool_calls |-> tool_calls,
     tool_call_id |-> tool_call_id, name |-> name]

\* ContextBuilder.build_messages: session history followed by the user turn
build_messages(history, current_message) ==
    [i \in 1..Len(history) |->
        Turn(history[i].role, history[i].content, <<>>, 0, "")]
    \o <<Turn("user", current_message, <<>>, 0, "")>>

\* ContextBuilder.add_assistant_message
add_assistant_message(msgs, content, tool_call_dicts) ==
    Append(msgs, Turn("assistant", content, tool_call_dicts, 0, ""))

\* ContextBuilder.add_tool_result
add_tool_result(msgs, tool_call_id, name, res) ==
    Append(msgs, Turn("tool", res, <<>>, tool_call_id, name))

-----------------------------------------------------------------------------
(* process_for_user / process_direct, as steps between suspension points.   *)
(* A request's local state is the record q; l is the shared slot and st the *)
(* persisted sessions at the time the step runs.  Each step returns the     *)
(* request's new local state and the new persisted sessions.                *)

NoResult == [kind |-> "none", value |-> NoText]
Returned(text) == [kind |-> "returned", value |-> text]
Raised(err) == [kind |-> "raised", value |-> err]

IdleReq == [pc |-> "idle", session |-> NoSession, messages |-> <<>>,
            iteration |-> 0, calls |-> <<>>, running |-> {}, toolReg |-> NoObj,
            modelCalls |-> 0, result |-> NoResult, saves |-> <<>>,
            trace |-> <<>>]

\* the content of the message request r sends
Content(r) == "msg of " \o r

\* the session key, the channel and the chat id request r passes to
\* process_for_user: r1 leaves the key and the chat id out and takes the
\* default channel, r2 names a channel and a chat
SessionKey(r) == NoText
Channel(r) == IF r = "r1" THEN "api" ELSE "telegram"
ChatId(r) == IF r = "r1" THEN NoText ELSE "chat of " \o r

\* process_for_user lines 279-280: the key for session_key = None
default_session_key(user_id) == "user_" \o user_id \o ":default"

\* process_for_user lines 278-283: the session key the invocation uses
session_key_for(user_id, session_key) ==
    IF session_key = NoText THEN default_session_key(user_id)
    ELSE IF ~StartsWith(session_key, "user_" \o user_id \o ":")
    THEN "user_" \o user_id \o ":" \o session_key
    ELSE session_key

\* process_for_user line 286: chat_id = chat_id or user_id
chat_id_for(user_id, chat_id) ==
    IF chat_id \in {NoText, ""} THEN user_id ELSE chat_id

\* a call made on a component of the slot: get_or_create on the session
\* store, set_context on a tool of the registry, the model call with the
\* definitions of the registry, execute on the registry
Event(ev, on, name, channel, chat_id) ==
    [ev |-> ev, on |-> on, name |-> name, channel |-> channel, chat_id |-> chat_id]

\* variant: only the message tool is given the addressing context
set_contexts_MessageOnly(l, channel, chat_id) ==
    <<Event("set_context", l.tools, "message", channel, chat_id)>>

\* lines 330-341: set_context(channel, chat_id) on the message, spawn and
\* cron tools the registry holds
set_contexts(l, channel, chat_id) ==
    LET aware == SelectSeq(<<"message", "spawn", "cron">>,
                           LAMBDA t : t \in Registered(l))
    IN  [i \in 1..Len(aware) |->
            Event("set_context", l.tools, aware[i], channel, chat_id)]

\* what a message, spawn or cron tool holds before its first set_context
NoContext == [channel |-> "", chat_id |-> ""]

\* no tool has been given a context
NoAddressing == [k \in {} |-> NoContext]

\* the tool name of the registry reg, as a key of the contexts held
ToolOf(reg, name) == <<reg.id, name>>

\* tool.set_context(channel, chat_id), the call recorded as ev: the tool
\* keeps the pair, in place of the one it held
set_context(held, ev) ==
    [k \in DOMAIN held \cup {ToolOf(ev.on, ev.name)} |->
        IF k = ToolOf(ev.on, ev.name)
        THEN [channel |-> ev.channel, chat_id |-> ev.chat_id]
        ELSE held[k]]

\* the set_context calls evs, made in this order
RECURSIVE Addressed(_, _)
Addressed(held, evs) ==
    IF evs = <<>> THEN held
    ELSE Addressed(set_context(held, Head(evs)), Tail(evs))

\* the context the tool name of registry reg holds
Held(held, reg, name) ==
    IF ToolOf(reg, name) \in DOMAIN held THEN held[ToolOf(reg, name)]
    ELSE NoContext

\* the set_context calls of the last process_direct call recorded in tr
LastSets(tr) ==
    LET starts == {i \in DOMAIN tr : tr[i].ev = "get_or_create"}
        last == CHOOSE i \in starts : \A j \in starts : j <= i
    IN  IF starts = {} THEN <<>>
        ELSE SelectSeq(SubSeq(tr, last + 1, Len(tr)),
                       LAMBDA e : e.ev = "set_context")

\* q is the state in which process_direct reaches its first suspension
\* point, or its end when the loop body never runs
AtFirstSuspension(q) ==
    \/ q.pc = "chat" /\ q.iteration = 1
    \/ q.pc = "done" /\ q.iteration = 0 /\ q.trace # <<>>

\* a tool call emitted by the model in round it at position i
ToolCall(it, i, name) == [id |-> 10 * it + i, name |-> name]

\* variant: the fallback test written `if not final_content`
finish_EmptyIsAbsent(q, l, st, content, final_content) ==
    LET final == IF final_content \in {NoText, ""} THEN Fallback ELSE final_content
        s1 == add_message(q.session, "user", content)
        s2 == add_message(s1, "assistant", final)
    IN [q |-> [q EXCEPT !.pc = "done", !.session = s2,
                        !.result = Returned(final),
                        !.saves = Append(@, [via |-> l.sessions, key |-> s2.key,
                                             messages |-> s2.messages])],
        store |-> save(l.sessions, st, s2)]

\* variant: the tool results of the run are added to the session as well
finish_WithToolTurns(q, l, st, content, final_content) ==
    LET final == IF final_content = NoText THEN Fallback ELSE final_content
        s1 == add_message(q.session, "user", content)
        tools == SelectSeq(q.messages, LAMBDA m : m.role = "tool")
        s1b == [s1 EXCEPT !.messages =
                   @ \o [i \in 1..Len(tools) |-> Msg("tool", tools[i].content)]]
        s2 == add_message(s1b, "assistant", final)
    IN [q |-> [q EXCEPT !.pc = "done", !.session = s2,
                        !.result = Returned(final),
                        !.saves = Append(@, [via |-> l.sessions, key |-> s2.key,
                                             messages |-> s2.messages])],
        store |-> save(l.sessions, st, s2)]

\* variant: the session saved holds the two new turns only
finish_DropsHistory(q, l, st, content, final_content) ==
    LET final == IF final_content = NoText THEN Fallback ELSE final_content
        s1 == add_message([q.session EXCEPT !.messages = <<>>], "user", content)
        s2 == add_message(s1, "assistant", final)
    IN [q |-> [q EXCEPT !.pc = "done", !.session = s2,
                        !.result = Returned(final),
                        !.saves = Append(@, [via |-> l.sessions, key |-> s2.key,
                                             messages |-> s2.messages])],
        store |-> save(l.sessions, st, s2)]

\* variant: the two turns are appended to the history the store holds at
\* the save, not to the session object obtained at the start
finish_Rereads(q, l, st, content, final_content) ==
    LET final == IF final_content = NoText THEN Fallback ELSE final_content
        s0 == get_or_create(l.sessions, st, q.session.key)
        s1 == add_message(s0, "user", content)
        s2 == add_message(s1, "assistant", final)
    IN [q |-> [q EXCEPT !.pc = "done", !.session = s2,
                        !.result = Returned(final),
                        !.saves = Append(@, [via |-> l.sessions, key |-> s2.key,
                                             messages |-> s2.messages])],
        store |-> save(l.sessions, st, s2)]

\* lines 397-405: the fallback for an absent final content, the two session
\* appends and the save through the session store the slot holds now
finish(q, l, st, content, final_content) ==
    LET final == IF final_content = NoText THEN Fallback ELSE final_content
        s1 == add_message(q.session, "user", content)
        s2 == add_message(s1, "assistant", final)
    IN [q |-> [q EXCEPT !.pc = "done", !.session = s2,
                        !.result = Returned(final),
                        !.saves = Append(@, [via |-> l.sessions, key |-> s2.key,
                                             messages |-> s2.messages])],
        store |-> save(l.sessions, st, s2)]

\* variant: an invocation keeps the registry of its first tool execution
start_tool_Pinned(q, l, i) ==
    LET reg == IF q.toolReg = NoObj THEN l.tools ELSE q.toolReg
    IN  [q EXCEPT !.pc = "tool", !.running = @ \cup {i}, !.toolReg = reg,
                  !.trace = Append(@, Event("execute", reg, q.calls[i].name, "", ""))]

\* line 388: issue the execution of call i on the registry the slot holds now
start_tool(q, l, i) ==
    [q EXCEPT !.pc = "tool", !.running = @ \cup {i}, !.toolReg = l.tools,
              !.trace = Append(@, Event("execute", l.tools, q.calls[i].name, "", ""))]

\* variant: the loop test off by one (<= for <)
loop_head_OffByOne(q, l, st, content, maxit) ==
    IF q.iteration <= maxit
    THEN [q |-> [q EXCEPT !.pc = "chat", !.iteration = @ + 1,
                          !.modelCalls = @ + 1, !.calls = <<>>],
          store |-> st]
    ELSE finish([q EXCEPT !.calls = <<>>], l, st, content, NoText)

\* lines 356-364: the loop test, the increment and the model call
loop_head(q, l, st, content, maxit) ==
    IF q.iteration < maxit
    THEN [q |-> [q EXCEPT !.pc = "chat", !.iteration = @ + 1,
                          !.modelCalls = @ + 1, !.calls = <<>>,
                          !.trace = Append(@, Event("chat", l.tools, "", "", ""))],
          store |-> st]
    ELSE finish([q EXCEPT !.calls = <<>>], l, st, content, NoText)

\* lines 317-364: _ensure_initialized (which raises when no workspace is
\* active), the session and the buffer, then the loop up to the first model
\* call.  l0 is the slot and n the construction count at the call.
process_direct(q, l0, n, st, content, session_key, channel, chat_id, maxit) ==
    LET e == ensure_initialized(l0, n)
        l == e.loop
        sess == get_or_create(l.sessions, st, session_key)
        made_calls == <<Event("get_or_create", l.sessions, session_key, "", "")>>
                 \o set_contexts(l, channel, chat_id)
        msgs == build_messages(sess.messages, content)
        out == loop_head([q EXCEPT !.session = sess, !.messages = msgs,
                                   !.iteration = 0, !.trace = @ \o made_calls],
                         l, st, content, maxit)
    IN IF e.raised
       THEN [q |-> [q EXCEPT !.pc = "raised", !.result = Raised("RuntimeError")],
             store |-> st, loop |-> l0, built |-> n]
       ELSE [q |-> out.q, store |-> out.store, loop |-> l, built |-> e.built]

\* variant: the calls of a reply are all started at once
on_reply_Gather(q, l, st, content, maxit, reply) ==
    IF reply.tool_calls # <<>>
    THEN LET dicts == [i \in 1..Len(reply.tool_calls) |->
                          [id |-> reply.tool_calls[i].id,
                           name |-> reply.tool_calls[i].name]]
             msgs == add_assistant_message(q.messages, reply.content, dicts)
         IN [q |-> [q EXCEPT !.messages = msgs, !.calls = reply.tool_calls,
                             !.pc = "tool", !.toolReg = l.tools,
                             !.running = 1..Len(reply.tool_calls)],
             store |-> st]
    ELSE finish(q, l, st, content, reply.content)

\* lines 366-395: the model call returned `reply`
on_reply(q, l, st, content, maxit, reply) ==
    IF reply.tool_calls # <<>>
    THEN LET dicts == [i \in 1..Len(reply.tool_calls) |->
                          [id |-> reply.tool_calls[i].id,
                           name |-> reply.tool_calls[i].name]]
             msgs == add_assistant_message(q.messages, reply.content, dicts)
         IN [q |-> start_tool([q EXCEPT !.messages = msgs,
                                        !.calls = reply.tool_calls], l, 1),
             store |-> st]
    ELSE finish(q, l, st, content, reply.content)

\* variant: an error result ends the loop instead of being fed back
on_tool_result_StopOnError(q, l, st, content, maxit, i, res) ==
    LET msgs == add_tool_result(q.messages, q.calls[i].id, q.calls[i].name, res)
        q1 == [q EXCEPT !.messages = msgs, !.running = @ \ {i}]
    IN IF res # "ok"
       THEN finish(q1, l, st, content, NoText)
       ELSE IF i < Len(q.calls)
       THEN [q |-> start_tool(q1, l, i + 1), store |-> st]
       ELSE loop_head(q1, l, st, content, maxit)

\* lines 388-391: the execution of call i returned `res`; then the next call
\* of the round, or the next round
on_tool_result(q, l, st, content, maxit, i, res) ==
    LET msgs == add_tool_result(q.messages, q.calls[i].id, q.calls[i].name, res)
        q1 == [q EXCEPT !.messages = msgs, !.running = @ \ {i}]
    IN IF i < Len(q.calls)
       THEN [q |-> start_tool(q1, l, i + 1), store |-> st]
       ELSE loop_head(q1, l, st, content, maxit)

\* variant: the exception is caught and the fallback message returned
on_model_failure_Swallowed(q) ==
    LET s2 == add_message(add_message(q.session, "user", "lost"), "assistant", Fallback)
    IN [q EXCEPT !.pc = "done", !.session = s2, !.result = Returned(Fallback)]

\* lines 360-364 when provider.chat raises: the exception leaves process_direct
on_model_failure(q) == [q EXCEPT !.pc = "raised", !.result = Raised("ModelCallFailure")]

-----------------------------------------------------------------------------
(* What the model can answer *)

\* tool names the model asks for: a registered one and an unregistered one
ModelTools == {"write_file", "unknown_tool"}

\* sequences of 1..MaxCalls tool names
NameSeqs == UNION {[1..n -> ModelTools] : n \in 1..MaxCalls}

\* reply texts: a text, the empty text, no text at all
Texts == {"answer", "", NoText}

\* the replies provider.chat can return to the model call of round it
Replies(it) ==
    {[content |-> "", tool_calls |-> [i \in 1..Len(ns) |-> ToolCall(it, i, ns[i])]] :
        ns \in NameSeqs}
    \cup {[content |-> t, tool_calls |-> <<>>] : t \in Texts}

\* what `replies` keeps of a reply: its kind and its text
Observed(reply) ==
    [kind |-> IF reply.tool_calls # <<>> THEN "tools" ELSE "final",
     content |-> reply.content]

-----------------------------------------------------------------------------
(* The directory tree under base_path (pathlib, shutil) *)

\* a tenant id that contains the path separator
NestedId == "b/memory"

\* tenant ids without a path separator
PlainIds == {"a", "b"}

\* a tenant id that contains "user_" (the ids of tests/test_multi_tenant.py
\* are test_user_0, test_user_1, ...)
TaggedId == "test_user_1"

\* the tenant ids handed to WorkspaceManager and UserConfigManager
Ids == PlainIds \cup {NestedId, TaggedId}

\* pathlib splits a path at the separator: the components, under
\* base_path, of the paths the managers build
Parts(path) == IF path = get_workspace_path(NestedId)
               THEN <<"user_b", "memory">>
               ELSE <<path>>

\* no exception
Ok == "ok"
\* the nodes of the tree
Dir == [kind |-> "dir"]
File(content) == [kind |-> "file", content |-> content]

\* base_path exists and is empty after either manager is constructed
EmptyDisk == (<<>> :> Dir)

IsPrefix(p, q) == Len(p) <= Len(q) /\ SubSeq(q, 1, Len(p)) = p
Parent(p) == SubSeq(p, 1, Len(p) - 1)
Ancestors(p) == {SubSeq(p, 1, k) : k \in 0..(Len(p) - 1)}

\* Path.exists, Path.is_dir, Path.is_file
exists(d, p) == p \in DOMAIN d
is_dir(d, p) == exists(d, p) /\ d[p].kind = "dir"
is_file(d, p) == exists(d, p) /\ d[p].kind = "file"

\* shutil.rmtree(p) of a directory: p and everything below it
rmtree(d, p) == [q \in {x \in DOMAIN d : ~IsPrefix(p, x)} |-> d[q]]

\* Path.mkdir(parents, exist_ok)
mkdir(d, p, parents, exist_ok) ==
    IF exists(d, p)
    THEN [err |-> IF exist_ok /\ is_dir(d, p) THEN Ok ELSE "FileExistsError",
          disk |-> d]
    ELSE IF is_dir(d, Parent(p))
    THEN [err |-> Ok, disk |-> (p :> Dir) @@ d]
    ELSE IF exists(d, Parent(p)) \/ \E a \in Ancestors(p) : is_file(d, a)
    THEN [err |-> "NotADirectoryError", disk |-> d]
    ELSE IF ~parents
    THEN [err |-> "FileNotFoundError", disk |-> d]
    ELSE [err |-> Ok,
          disk |-> [q \in (Ancestors(p) \cup {p}) \ DOMAIN d |-> Dir] @@ d]

\* Path.write_text(content): creates or overwrites the file
write_text(d, p, content) ==
    IF is_dir(d, p)
    THEN [err |-> "IsADirectoryError", disk |-> d]
    ELSE IF ~is_dir(d, Parent(p))
    THEN [err |-> "FileNotFoundError", disk |-> d]
    ELSE [err |-> Ok, disk |-> (p :> File(content)) @@ [q \in DOMAIN d \ {p} |-> d[q]]]

\* the part of the tree at and below p, with paths relative to p
Subtree(d, p) ==
    [r \in {SubSeq(q, Len(p) + 1, Len(q)) : q \in {x \in DOMAIN d : IsPrefix(p, x)}}
        |-> d[p \o r]]

-----------------------------------------------------------------------------
(* WorkspaceManager: create_workspace, delete_workspace, clone_template *)

STANDARD_DIRS == {"memory", "reports", "data", "skills"}
STANDARD_FILES == {"AGENTS.md", "USER.md", "SOUL.md", "HEARTBEAT.md"}

\* a Python dict with no key (also what None stands for where the code
\* tests `if data`)
NoData == [k \in {} |-> k]

\* dict.update / {**a, **b}: the keys of b win
Update(a, b) == b @@ a

\* create_workspace: template_values before template_data is applied
TemplateValues(user_id, now) ==
    [user_id |-> user_id, created_at |-> now, language |-> "zh",
     report_format |-> "markdown", notification_channels |-> "push,email"]

\* the placeholders each standard file template contains
Placeholders(filename) ==
    CASE filename = "AGENTS.md" -> {"user_id", "language"}
      [] filename = "USER.md" -> {"user_id", "created_at", "language",
                                  "report_format", "notification_channels"}
      [] OTHER -> {}

\* template.format(**template_values): the text is determined by the
\* template and the values of its placeholders
Render(filename, values) ==
    [template |-> filename,
     values |-> [k \in Placeholders(filename) |-> values[k]]]

\* the initial memory/MEMORY.md
MemoryNote(user_id, now) == [template |-> "MEMORY.md",
                             values |-> [user_id |-> user_id, first_use |-> now]]

\* the dict create_workspace serialises into config.json
InitialConfigJson(user_id, now) ==
    [user_id |-> user_id, created_at |-> now, updated_at |-> now,
     version |-> "1.0",
     watchlist |-> [stocks |-> <<>>, influencers |-> <<>>,
                    keywords |-> <<>>, sectors |-> <<>>],
     preferences |-> [language |-> "zh", report_frequency |-> "daily",
                      report_time |-> "09:00", report_format |-> "markdown",
                      notification_channels |-> <<"push">>]]

\* the files and directories create_workspace puts below the new directory
StandardContent(workspace, user_id, template_data, now) ==
    LET values == Update(TemplateValues(user_id, now), template_data)
    IN  [q \in {workspace \o <<n>> : n \in STANDARD_DIRS} |-> Dir]
        @@ [q \in {workspace \o <<n>> : n \in STANDARD_FILES}
               |-> File(Render(q[Len(q)], values))]
        @@ (workspace \o <<"memory", "MEMORY.md">> :> File(MemoryNote(user_id, now)))
        @@ (workspace \o <<"config.json">> :> File(InitialConfigJson(user_id, now)))

\* a variant that rebuilds the workspace around its reports
create_workspace_KeepsReports(d, user_id, template_data, now) ==
    LET workspace == Parts(get_workspace_path(user_id))
        kept == [p \in {x \in DOMAIN d :
                           IsPrefix(workspace \o <<"reports">>, x)} |-> d[p]]
        cleared == IF exists(d, workspace) THEN rmtree(d, workspace) ELSE d
        m == mkdir(cleared, workspace, TRUE, FALSE)
    IN  IF m.err # Ok
        THEN [raised |-> m.err, ret |-> NoPath, disk |-> m.disk]
        ELSE [raised |-> Ok, ret |-> get_workspace_path(user_id),
              disk |-> kept @@ StandardContent(workspace, user_id, template_data, now)
                       @@ m.disk]

\* a variant that keeps an existing workspace and only adds what is missing
create_workspace_KeepExisting(d, user_id, template_data, now) ==
    LET workspace == Parts(get_workspace_path(user_id))
        m == mkdir(d, workspace, TRUE, TRUE)
    IN  IF m.err # Ok
        THEN [raised |-> m.err, ret |-> NoPath, disk |-> d]
        ELSE [raised |-> Ok, ret |-> get_workspace_path(user_id),
              disk |-> m.disk
                       @@ StandardContent(workspace, user_id, template_data, now)]

\* WorkspaceManager.create_workspace
create_workspace(d, user_id, template_data, now) ==
    LET workspace == Parts(get_workspace_path(user_id))
        d1 == IF exists(d, workspace) THEN rmtree(d, workspace) ELSE d
        m == mkdir(d1, workspace, TRUE, FALSE)
    IN  IF is_file(d, workspace)
        THEN [raised |-> "NotADirectoryError", ret |-> NoPath, disk |-> d]
        ELSE IF m.err # Ok
        THEN [raised |-> m.err, ret |-> NoPath, disk |-> d1]
        ELSE [raised |-> Ok, ret |-> get_workspace_path(user_id),
              disk |-> StandardContent(workspace, user_id, template_data, now)
                       @@ m.disk]

\* WorkspaceManager.delete_workspace
delete_workspace(d, user_id) ==
    LET workspace == Parts(get_workspace_path(user_id))
    IN  IF ~exists(d, workspace)
        THEN [raised |-> Ok, ret |-> FALSE, disk |-> d]
        ELSE IF is_file(d, workspace)
        THEN [raised |-> "NotADirectoryError", ret |-> FALSE, disk |-> d]
        ELSE [raised |-> Ok, ret |-> TRUE, disk |-> rmtree(d, workspace)]

\* shutil.copy(src, dst) of one file
copy(d, src, dst) ==
    IF src = dst
    THEN [err |-> "SameFileError", disk |-> d]
    ELSE write_text(d, dst, d[src].content)

RECURSIVE CopyAll(_, _, _, _)
\* the loop over files_to_copy: stops at the first copy that raises
CopyAll(d, source, target, names) ==
    IF names = <<>>
    THEN [err |-> Ok, disk |-> d]
    ELSE LET src == source \o <<Head(names)>>
             c == IF is_file(d, src)
                  THEN copy(d, src, target \o <<Head(names)>>)
                  ELSE [err |-> Ok, disk |-> d]
         IN  IF c.err # Ok THEN c ELSE CopyAll(c.disk, source, target, Tail(names))

\* WorkspaceManager.clone_template
clone_template(d, source_user_id, target_user_id, now) ==
    LET source == Parts(get_workspace_path(source_user_id))
        target == Parts(get_workspace_path(target_user_id))
        cw == create_workspace(d, target_user_id, NoData, now)
        cp == CopyAll(cw.disk, source, target,
                      <<"AGENTS.md", "SOUL.md", "HEARTBEAT.md">>)
    IN  IF ~exists(d, source)
        THEN [raised |-> "ValueError", ret |-> NoPath, disk |-> d]
        ELSE IF cw.raised # Ok
        THEN cw
        ELSE [raised |-> cp.err,
              ret |-> IF cp.err = Ok THEN cw.ret ELSE NoPath,
              disk |-> cp.disk]

\* the workspace paths that exist in a tree
Existing(d) == {get_workspace_path(u) : u \in {x \in Ids \cup Tenants :
                                                exists(d, Parts(get_workspace_path(x)))}}

-----------------------------------------------------------------------------
(* UserConfig, UserWatchlist, UserPreferences (user_config.py) *)

WatchlistFields == {"stocks", "influencers", "keywords", "sectors"}
PreferenceFields == {"report_frequency", "report_time", "report_format",
                     "language", "max_report_length", "notification_channels"}

\* UserWatchlist(): the field defaults
DefaultWatchlist == [f \in WatchlistFields |-> <<>>]

\* the default of UserPreferences.max_report_length
DefaultMaxReportLength == 5000

\* UserPreferences.default()
DefaultPreferences ==
    [report_frequency |-> "daily", report_time |-> "09:00",
     report_format |-> "markdown", language |-> "zh",
     max_report_length |-> DefaultMaxReportLength,
     notification_channels |-> <<"push">>]

\* dict.get(key, default)
Get(data, key, default) == IF key \in DOMAIN data THEN data[key] ELSE default

\* UserWatchlist.from_dict
WatchlistFromDict(data) ==
    IF data = NoData THEN DefaultWatchlist
    ELSE [f \in WatchlistFields |-> Get(data, f, <<>>)]

\* UserPreferences.from_dict: unknown keys are filtered out, missing
\* fields take the defaults
PreferencesFromDict(data) ==
    IF data = NoData THEN DefaultPreferences
    ELSE [f \in PreferenceFields |-> Get(data, f, DefaultPreferences[f])]

\* Python None where a UserConfig is expected
NoConfig == [user_id |-> NoUser]

\* UserConfig.from_dict (data["user_id"] raises KeyError when missing;
\* get_config turns that into None)
from_dict(data, now) ==
    IF "user_id" \notin DOMAIN data THEN NoConfig
    ELSE [user_id |-> data.user_id,
          created_at |-> Get(data, "created_at", now),
          updated_at |-> Get(data, "updated_at", now),
          watchlist |-> WatchlistFromDict(Get(data, "watchlist", NoData)),
          preferences |-> PreferencesFromDict(Get(data, "preferences", NoData)),
          custom_data |-> Get(data, "custom_data", NoData),
          version |-> Get(data, "version", "1.0")]

\* variant: the version is left out of the dictionary
to_dict_OmitsVersion(config) ==
    [user_id |-> config.user_id, created_at |-> config.created_at,
     updated_at |-> config.updated_at, watchlist |-> config.watchlist,
     preferences |-> config.preferences, custom_data |-> config.custom_data]

\* UserConfig.to_dict
to_dict(config) ==
    [user_id |-> config.user_id, created_at |-> config.created_at,
     updated_at |-> config.updated_at, watchlist |-> config.watchlist,
     preferences |-> config.preferences, custom_data |-> config.custom_data,
     version |-> config.version]

\* UserConfig.create
create(user_id, initial_data, now) ==
    [user_id |-> user_id, created_at |-> now, updated_at |-> now,
     watchlist |-> DefaultWatchlist, preferences |-> DefaultPreferences,
     custom_data |-> initial_data, version |-> "1.0"]

\* the callers that hold a UserConfig object of their own
Writers == {"w1", "w2"}

\* a writer that holds no UserConfig object
NoCopy == [pc |-> "idle", config |-> NoConfig]

\* the loop `for key, value in data.items(): if hasattr(obj, key):
\* setattr(obj, key, value)` as seen through the fields of obj: a key that
\* names no attribute is skipped, a key that names a field replaces it
SetAttrs(obj, data) ==
    [f \in DOMAIN obj |-> IF f \in DOMAIN data THEN data[f] ELSE obj[f]]

\* hasattr is also true of the methods of the class: when the data names
\* to_dict, setattr stores the value over the method and obj.to_dict() is
\* no longer callable
ToDictShadowed(data) == "to_dict" \in DOMAIN data

\* UserConfig.update_watchlist(**kwargs) on the object a caller holds
config_update_watchlist(config, kwargs, now) ==
    [config EXCEPT !.watchlist = SetAttrs(@, kwargs), !.updated_at = now]

\* UserConfig.update_preferences(**kwargs) on the object a caller holds
config_update_preferences(config, kwargs, now) ==
    [config EXCEPT !.preferences = SetAttrs(@, kwargs), !.updated_at = now]

-----------------------------------------------------------------------------
(* UserConfigManager *)

\* UserConfigManager._get_config_path: makes the workspace directory
get_config_path(d, user_id) ==
    LET workspace == Parts(get_workspace_path(user_id))
        m == mkdir(d, workspace, FALSE, TRUE)
    IN  [err |-> m.err, disk |-> m.disk, path |-> workspace \o <<"config.json">>]

\* UserConfigManager.get_config
get_config(d, user_id, now) ==
    LET cp == get_config_path(d, user_id)
    IN  IF cp.err # Ok
        THEN [raised |-> cp.err, ret |-> NoConfig, disk |-> cp.disk]
        ELSE IF ~exists(cp.disk, cp.path)
        THEN [raised |-> Ok, ret |-> NoConfig, disk |-> cp.disk]
        ELSE IF ~is_file(cp.disk, cp.path)
        THEN [raised |-> Ok, ret |-> NoConfig, disk |-> cp.disk]
        ELSE [raised |-> Ok, ret |-> from_dict(cp.disk[cp.path].content, now),
              disk |-> cp.disk]

\* variant: a configuration is not written over one that was saved later
save_config_KeepsNewer(d, config, shadowed, now) ==
    LET cp == get_config_path(d, config.user_id)
        stamped == [config EXCEPT !.updated_at = now]
        stale == /\ is_file(cp.disk, cp.path)
                 /\ cp.disk[cp.path].content.updated_at > config.updated_at
        w == write_text(cp.disk, cp.path, to_dict(stamped))
    IN  IF cp.err # Ok
        THEN [raised |-> cp.err, ret |-> config, disk |-> cp.disk]
        ELSE IF stale
        THEN [raised |-> Ok, ret |-> config, disk |-> cp.disk]
        ELSE [raised |-> w.err, ret |-> stamped, disk |-> w.disk]

\* UserConfigManager.save_config; shadowed tells that config.to_dict()
\* raises.  ret is the config object after the call.
save_config(d, config, shadowed, now) ==
    LET cp == get_config_path(d, config.user_id)
        stamped == [config EXCEPT !.updated_at = now]
        w == write_text(cp.disk, cp.path, to_dict(stamped))
    IN  IF cp.err # Ok
        THEN [raised |-> cp.err, ret |-> config, disk |-> cp.disk]
        ELSE IF shadowed
        THEN [raised |-> "TypeError", ret |-> stamped, disk |-> cp.disk]
        ELSE [raised |-> w.err, ret |-> stamped, disk |-> w.disk]

\* create_user without the check for an existing configuration
create_user_Overwrites(d, user_id, initial_data, now) ==
    LET g == get_config(d, user_id, now)
        s == save_config(g.disk, create(user_id, initial_data, now), FALSE, now)
    IN  IF g.raised # Ok THEN g
        ELSE IF s.raised # Ok
        THEN [raised |-> s.raised, ret |-> NoConfig, disk |-> s.disk]
        ELSE s

\* UserConfigManager.create_user
create_user(d, user_id, initial_data, now) ==
    LET g == get_config(d, user_id, now)
        s == save_config(g.disk, create(user_id, initial_data, now), FALSE, now)
    IN  IF g.raised # Ok THEN g
        ELSE IF g.ret # NoConfig
        THEN [raised |-> "ValueError", ret |-> NoConfig, disk |-> g.disk]
        ELSE IF s.raised # Ok
        THEN [raised |-> s.raised, ret |-> NoConfig, disk |-> s.disk]
        ELSE s

\* UserConfigManager.update_watchlist
update_watchlist(d, user_id, watchlist_data, now) ==
    LET g == get_config(d, user_id, now)
        config == [g.ret EXCEPT !.watchlist = SetAttrs(@, watchlist_data)]
        s == save_config(g.disk, config, ToDictShadowed(watchlist_data), now)
    IN  IF g.raised # Ok \/ g.ret = NoConfig THEN g
        ELSE IF s.raised # Ok
        THEN [raised |-> s.raised, ret |-> NoConfig, disk |-> s.disk]
        ELSE s

\* variant: the preferences are written into a fresh configuration instead
\* of the one read from disk
update_preferences_Rebuilds(d, user_id, prefs_data, now) ==
    LET g == get_config(d, user_id, now)
        config == [create(user_id, NoData, now)
                      EXCEPT !.preferences = SetAttrs(@, prefs_data)]
        s == save_config(g.disk, config, ToDictShadowed(prefs_data), now)
    IN  IF g.raised # Ok \/ g.ret = NoConfig THEN g
        ELSE IF s.raised # Ok
        THEN [raised |-> s.raised, ret |-> NoConfig, disk |-> s.disk]
        ELSE s

\* UserConfigManager.update_preferences
update_preferences(d, user_id, prefs_data, now) ==
    LET g == get_config(d, user_id, now)
        config == [g.ret EXCEPT !.preferences = SetAttrs(@, prefs_data)]
        s == save_config(g.disk, config, ToDictShadowed(prefs_data), now)
    IN  IF g.raised # Ok \/ g.ret = NoConfig THEN g
        ELSE IF s.raised # Ok
        THEN [raised |-> s.raised, ret |-> NoConfig, disk |-> s.disk]
        ELSE s

\* UserConfigManager.delete_user: reports whether config.json is there and
\* removes nothing
delete_user(d, user_id) ==
    LET cp == get_config_path(d, user_id)
    IN  IF cp.err # Ok
        THEN [raised |-> cp.err, ret |-> FALSE, disk |-> cp.disk]
        ELSE [raised |-> Ok, ret |-> exists(cp.disk, cp.path), disk |-> cp.disk]

\* str.replace(old, ""): every occurrence of old is removed, left to right
RECURSIVE Remove(_, _)
Remove(s, old) ==
    IF Len(s) = 0 THEN s
    ELSE IF StartsWith(s, old)
    THEN Remove(SubSeq(s, Len(old) + 1, Len(s)), old)
    ELSE SubSeq(s, 1, 1) \o Remove(SubSeq(s, 2, Len(s)), old)

\* the directories directly under base_path whose name starts with "user_"
UserDirs(d) == {p \in DOMAIN d : Len(p) = 1 /\ is_dir(d, p)
                                 /\ StartsWith(p[1], "user_")}

\* UserConfigManager.list_users: the ids listed, item.name[5:] for each
\* directory (distinct names give distinct ids)
list_users(d) == {SubSeq(p[1], 6, Len(p[1])) : p \in UserDirs(d)}

\* WorkspaceManager.list_workspaces: the ids listed,
\* item.name.replace("user_", "") for each directory
list_workspaces(d) == {Remove(p[1], "user_") : p \in UserDirs(d)}

\* the DELETE /users/{user_id} endpoint (api/main.py delete_user): 404
\* without a configuration, else delete_workspace and then
\* UserConfigManager.delete_user, with no suspension point in between
api_delete_user(d, user_id, now) ==
    LET g == get_config(d, user_id, now)
        dw == delete_workspace(g.disk, user_id)
        du == delete_user(dw.disk, user_id)
    IN  IF g.raised # Ok
        THEN [raised |-> g.raised, ret |-> FALSE, disk |-> g.disk]
        ELSE IF g.ret = NoConfig
        THEN [raised |-> "HTTP 404", ret |-> FALSE, disk |-> g.disk]
        ELSE IF dw.raised # Ok
        THEN [raised |-> "HTTP 500", ret |-> FALSE, disk |-> dw.disk]
        ELSE IF du.raised # Ok
        THEN [raised |-> "HTTP 500", ret |-> FALSE, disk |-> du.disk]
        ELSE [raised |-> Ok, ret |-> TRUE, disk |-> du.disk]

-----------------------------------------------------------------------------
(* ReportGenerator: _call_llm_with_retry, generate_report;                  *)
(* ReportScheduler: _generate_report_task, generate_report_now              *)

\* the largest max_retries a ReportGenerator is constructed with
MaxRetries == 3

\* the retry_delay values a ReportGenerator is constructed with (seconds);
\* report_generator_simple.py has the delay 1.0 built in
RetryDelays == {1, 2}

\* ReportGenerator.__init__: whether an agent_loop was given, max_retries
\* and retry_delay
Generators == [agent_loop : BOOLEAN, max_retries : 0..MaxRetries,
               retry_delay : RetryDelays]

\* the generator the API server constructs
DefaultGenerator == [agent_loop |-> TRUE, max_retries |-> 3, retry_delay |-> 1]

ReportTypes == {"daily"}

\* the prompt generate_report builds for the tenant
Prompt(user_id, report_type) == report_type \o " report prompt for " \o user_id

\* f"report_generation:{user_id}:{report_type}"
report_session_key(user_id, report_type) ==
    "report_generation:" \o user_id \o ":" \o report_type

\* _generate_mock_report: the labelled placeholder
generate_mock_report(report_type, user_id) ==
    "mock report (" \o report_type \o ") for " \o user_id

\* exceptions: the exception caught in an attempt, and the one raised after
\* the loop, whose message ends with the text of last_error
NoError == [type |-> "None", detail |-> ""]
Error(type, detail) == [type |-> type, detail |-> detail]
Aggregate(max_retries, last_error) ==
    [type |-> "Exception", retried |-> max_retries, last_error |-> last_error]

\* what can make provider.chat raise
ModelFaults == {"timeout", "rate limit"}

\* the frame of _call_llm_with_retry: attempt is the loop variable;
\* attempts, errors and waits record the iterations entered, the exception
\* caught in each failed one and the asyncio.sleep calls made
IdleWrapper == [pc |-> "idle", user_id |-> NoUser, report_type |-> "",
                attempt |-> 0, last_error |-> NoError, attempts |-> 0,
                errors |-> <<>>, waits |-> <<>>, result |-> NoResult]

\* line 408: the loop is over without a return
exhausted(w, g) ==
    [w EXCEPT !.pc = "raised",
              !.result = [kind |-> "raised",
                          value |-> Aggregate(g.max_retries, w.last_error)]]

\* variant: last_error keeps the first exception caught
on_failure_KeepsFirst(w, g, e) ==
    LET w1 == [w EXCEPT !.last_error = IF @ = NoError THEN e ELSE @,
                        !.errors = Append(@, e)]
    IN  IF w.attempt < g.max_retries - 1
        THEN [w1 EXCEPT !.pc = "sleep",
                        !.waits = Append(@, g.retry_delay * (w.attempt + 1))]
        ELSE exhausted(w1, g)

\* lines 398-405: the except clause of iteration w.attempt, up to the sleep
\* or, in the last iteration, to the raise after the loop
on_failure(w, g, e) ==
    LET w1 == [w EXCEPT !.last_error = e, !.errors = Append(@, e)]
    IN  IF w.attempt < g.max_retries - 1
        THEN [w1 EXCEPT !.pc = "sleep",
                        !.waits = Append(@, g.retry_delay * (w.attempt + 1))]
        ELSE exhausted(w1, g)

\* variant: an empty or fallback answer counts as a failed attempt
after_call_RetryOnPoorContent(w, g, q, detail) ==
    IF q.pc = "done" /\ q.result.value \notin {"", Fallback}
    THEN [w EXCEPT !.pc = "returned", !.result = q.result]
    ELSE IF q.pc = "done"
    THEN on_failure(w, g, Error("PoorContent", detail))
    ELSE IF q.pc = "raised"
    THEN on_failure(w, g, Error(q.result.value, detail))
    ELSE [w EXCEPT !.pc = "loop"]

\* lines 384-392: the awaited process_direct as the wrapper sees it: it
\* returned (the wrapper returns its content), it raised (the except
\* clause runs) or it is suspended
after_call(w, g, q, detail) ==
    IF q.pc = "done"
    THEN [w EXCEPT !.pc = "returned", !.result = q.result]
    ELSE IF q.pc = "raised"
    THEN on_failure(w, g, Error(q.result.value, detail))
    ELSE [w EXCEPT !.pc = "loop"]

\* variant: the tenant is activated in the first iteration only
attempt_step_ActivatesOnce(w, g, q, l, n, d, st, maxit) ==
    LET w1 == [w EXCEPT !.attempts = @ + 1]
        sw == IF w.attempt = 0
              THEN switch_workspace(l, n, d, w.user_id)
              ELSE [outcome |-> "cached", ret |-> l.current_workspace,
                    loop |-> l, built |-> n, held |-> {}]
        pd == process_direct([IdleReq EXCEPT !.saves = q.saves],
                             sw.loop, sw.built, st,
                             Prompt(w.user_id, w.report_type),
                             report_session_key(w.user_id, w.report_type),
                             "report_generator", w.user_id, maxit)
        same == [q |-> q, store |-> st, loop |-> l, built |-> n,
                 switched |-> FALSE]
    IN  IF ~(w.attempt < g.max_retries)
        THEN [w |-> exhausted(w, g)] @@ same
        ELSE IF ~g.agent_loop
        THEN [w |-> [w1 EXCEPT !.pc = "returned",
                               !.result = Returned(generate_mock_report(
                                              w.report_type, w.user_id))]]
             @@ same
        ELSE IF sw.outcome = "ValueError"
        THEN [w |-> on_failure(w1, g, Error("ValueError", w.user_id)),
              q |-> q, store |-> st, loop |-> sw.loop, built |-> sw.built,
              switched |-> TRUE]
        ELSE [w |-> after_call(w1, g, pd.q, ""),
              q |-> pd.q, store |-> pd.store, loop |-> pd.loop,
              built |-> pd.built, switched |-> w.attempt = 0]

\* lines 376-396: iteration w.attempt of `for attempt in
\* range(self.max_retries)` up to its first suspension point.  q is the
\* frame of the previous process_direct call, l the slot, n the
\* construction count, d the directories on disk, st the sessions.
attempt_step(w, g, q, l, n, d, st, maxit) ==
    LET w1 == [w EXCEPT !.attempts = @ + 1]
        sw == switch_workspace(l, n, d, w.user_id)
        pd == process_direct([IdleReq EXCEPT !.saves = q.saves],
                             sw.loop, sw.built, st,
                             Prompt(w.user_id, w.report_type),
                             report_session_key(w.user_id, w.report_type),
                             "report_generator", w.user_id, maxit)
        same == [q |-> q, store |-> st, loop |-> l, built |-> n,
                 switched |-> FALSE]
    IN  IF ~(w.attempt < g.max_retries)
        THEN [w |-> exhausted(w, g)] @@ same
        ELSE IF ~g.agent_loop
        THEN [w |-> [w1 EXCEPT !.pc = "returned",
                               !.result = Returned(generate_mock_report(
                                              w.report_type, w.user_id))]]
             @@ same
        ELSE IF sw.outcome = "ValueError"
        THEN [w |-> on_failure(w1, g, Error("ValueError", w.user_id)),
              q |-> q, store |-> st, loop |-> sw.loop, built |-> sw.built,
              switched |-> TRUE]
        ELSE [w |-> after_call(w1, g, pd.q, ""),
              q |-> pd.q, store |-> pd.store, loop |-> pd.loop,
              built |-> pd.built, switched |-> TRUE]

\* _call_llm_with_retry(prompt, user_id, report_type) up to its first
\* suspension point
call_llm_with_retry(g, user_id, report_type, q, l, n, d, st, maxit) ==
    attempt_step([IdleWrapper EXCEPT !.user_id = user_id,
                                     !.report_type = report_type],
                 g, q, l, n, d, st, maxit)

\* asyncio.sleep is over: the next iteration of the loop
next_attempt(w, g, q, l, n, d, st, maxit) ==
    attempt_step([w EXCEPT !.attempt = @ + 1], g, q, l, n, d, st, maxit)

\* f"{report_type}_{timestamp}" and f"manual_{timestamp}"
report_id_of(report_type, now) == report_type \o "_" \o ToString(now)
manual_id(now) == "manual_" \o ToString(now)

\* what generate_report_now returns for "absent"
None == "None"

\* ReportGenerator._save_report
save_report(d, user_id, report_id, content, metadata) ==
    LET reports_dir == Parts(get_workspace_path(user_id)) \o <<"reports">>
        m == mkdir(d, reports_dir, FALSE, TRUE)
        f1 == write_text(m.disk, reports_dir \o <<report_id \o ".md">>, content)
        f2 == write_text(f1.disk, reports_dir \o <<report_id \o ".json">>, metadata)
    IN  IF m.err # Ok THEN m
        ELSE IF f1.err # Ok THEN f1
        ELSE f2

\* the dict generate_report returns
Failure(error) == [success |-> FALSE, report_id |-> None, error |-> error]
Success(report_id) == [success |-> TRUE, report_id |-> report_id, error |-> NoError]
NoOutcome == [success |-> FALSE, report_id |-> None, error |-> NoError]

\* variant: the text of the failure is kept as a report file
generate_report_end_SavesFailure(d, w, now) ==
    LET report_id == report_id_of(w.report_type, now)
        sv == save_report(d, w.user_id, report_id,
                          IF w.pc = "raised" THEN "failed" ELSE w.result.value,
                          [report_type |-> w.report_type, user_id |-> w.user_id,
                           generated_at |-> now])
    IN  IF w.pc = "raised"
        THEN [ret |-> Failure(w.result.value), disk |-> sv.disk]
        ELSE IF sv.err # Ok
        THEN [ret |-> Failure(Error(sv.err, report_id)), disk |-> sv.disk]
        ELSE [ret |-> Success(report_id), disk |-> sv.disk]

\* generate_report once the wrapper is over (w.pc returned or raised):
\* the report is saved and the dict built, any exception becomes
\* success = False
generate_report_end(d, w, now) ==
    LET report_id == report_id_of(w.report_type, now)
        sv == save_report(d, w.user_id, report_id, w.result.value,
                          [report_type |-> w.report_type, user_id |-> w.user_id,
                           generated_at |-> now])
    IN  IF w.pc = "raised"
        THEN [ret |-> Failure(w.result.value), disk |-> d]
        ELSE IF sv.err # Ok
        THEN [ret |-> Failure(Error(sv.err, report_id)), disk |-> sv.disk]
        ELSE [ret |-> Success(report_id), disk |-> sv.disk]

\* _generate_report_task returns None whatever happened (every exception
\* is logged and swallowed, the dict of generate_report is only logged), and
\* generate_report_now then returns the manual id (scheduler.py line 367)
task_end(ran, outcome, now) == manual_id(now)

\* generate_report_now: no call in progress, none made
NoReport == [pc |-> "idle", user_id |-> NoUser, report_type |-> "",
             had_config |-> FALSE, ran |-> FALSE, outcome |-> NoOutcome,
             ret |-> None, direct |-> FALSE]

-----------------------------------------------------------------------------
(* Gateway mode: MultiTenantAgentLoop.run *)

\* s.split(sep)[0]: the text before the first separator
RECURSIVE UpTo(_, _)
UpTo(s, sep) ==
    IF s = "" \/ StartsWith(s, sep) THEN ""
    ELSE SubSeq(s, 1, 1) \o UpTo(SubSeq(s, 2, Len(s)), sep)

\* run lines 423-429: the tenant id of a message, from its metadata or
\* else from a session key that starts with "user_"
extract_user_id(metadata_user_id, session_key) ==
    IF metadata_user_id \notin {NoUser, ""} THEN metadata_user_id
    ELSE IF StartsWith(session_key, "user_")
    THEN Remove(UpTo(session_key, ":"), "user_")
    ELSE NoUser

\* an inbound message, processed in the frame of request `slot`
Inbound(slot, user_id, session_key) ==
    [slot |-> slot, user_id |-> user_id, session_key |-> session_key,
     channel |-> IF slot = "r1" THEN "telegram" ELSE "discord",
     chat_id |-> "chat of " \o slot, content |-> Content(slot)]

\* OutboundMessage(channel = msg.channel, chat_id = msg.chat_id, content)
Outbound(msg, content) ==
    [channel |-> msg.channel, chat_id |-> msg.chat_id, content |-> content,
     re |-> msg.slot]

\* line 460: the text published when processing raised
ErrorText(e) == "Sorry, I encountered an error: " \o e

\* run before its first message
NoMsg == Inbound("", NoUser, "")
Waiting == [pc |-> "waiting", msg |-> NoMsg, consumed |-> <<>>]

\* lines 423-447: the message is dispatched to process_for_user when a
\* tenant id was found and to process_direct otherwise, up to the first
\* suspension point
run_dispatch(msg, q, l, n, d, st, maxit) ==
    LET user_id == extract_user_id(msg.user_id, msg.session_key)
        sw == switch_workspace(l, n, d, user_id)
    IN  IF user_id \notin {NoUser, ""}
        THEN IF sw.outcome = "ValueError"
             THEN [q |-> [q EXCEPT !.pc = "raised",
                                   !.result = Raised("ValueError")],
                   store |-> st, loop |-> sw.loop, built |-> sw.built,
                   user |-> user_id, switched |-> TRUE]
             ELSE process_direct(q, sw.loop, sw.built, st, msg.content,
                                 session_key_for(user_id, msg.session_key),
                                 msg.channel,
                                 chat_id_for(user_id, msg.chat_id), maxit)
                  @@ [user |-> user_id, switched |-> TRUE]
        ELSE process_direct(q, l, n, st, msg.content, msg.session_key,
                            msg.channel, msg.chat_id, maxit)
             @@ [user |-> NoUser, switched |-> FALSE]

\* lines 449-461: `if response:` publishes the response, the except
\* clause publishes the error text
run_publish(out, msg, q) ==
    IF q.pc = "raised"
    THEN Append(out, Outbound(msg, ErrorText(q.result.value)))
    ELSE IF q.result.value # ""
    THEN Append(out, Outbound(msg, q.result.value))
    ELSE out

-----------------------------------------------------------------------------
(* Actions *)

Req(r) == [pc |-> pc[r], session |-> session[r], messages |-> messages[r],
           iteration |-> iteration[r], calls |-> calls[r], running |-> running[r],
           toolReg |-> toolReg[r], modelCalls |-> modelCalls[r],
           result |-> result[r], saves |-> saves[r], trace |-> trace[r]]

\* request r continues with local state q
Put(r, q) ==
    /\ pc' = [pc EXCEPT ![r] = q.pc]
    /\ session' = [session EXCEPT ![r] = q.session]
    /\ messages' = [messages EXCEPT ![r] = q.messages]
    /\ iteration' = [iteration EXCEPT ![r] = q.iteration]
    /\ calls' = [calls EXCEPT ![r] = q.calls]
    /\ running' = [running EXCEPT ![r] = q.running]
    /\ toolReg' = [toolReg EXCEPT ![r] = q.toolReg]
    /\ modelCalls' = [modelCalls EXCEPT ![r] = q.modelCalls]
    /\ result' = [result EXCEPT ![r] = q.result]
    /\ saves' = [saves EXCEPT ![r] = q.saves]
    /\ trace' = [trace EXCEPT ![r] = q.trace]
    /\ addressing' = IF q # Req(r) /\ AtFirstSuspension(q)
                     THEN Addressed(addressing, LastSets(q.trace))
                     ELSE addressing

\* inputs of the manager operations
TemplateData == {NoData, [language |-> "en"]}
InitialData == {NoData, [source |-> "test"]}
WatchlistData == {[stocks |-> <<"AAPL", "TSLA">>, influencers |-> <<"@elonmusk">>],
                  [sectors |-> <<"tech">>, bogus |-> <<"x">>],
                  [to_dict |-> <<"x">>]}
PrefsData == {[report_frequency |-> "weekly", language |-> "en"],
              [max_report_length |-> 800, bogus |-> "x"],
              [to_dict |-> "x"]}
\* the config objects callers hand to save_config
SaveConfigs(u) == {[create(u, NoData, 0) EXCEPT !.watchlist.stocks = <<"MSFT">>]}

NoOp == [op |-> "none", user_id |-> NoUser, arg |-> NoData, raised |-> Ok,
         ret |-> NoData, before |-> EmptyDisk, at |-> 0]

\* the sessions persisted below a workspace go with the workspace
ClearSessions(st, ws) ==
    [p \in DOMAIN st |-> IF p = ws THEN NoSessions ELSE st[p]]

\* one call of a manager operation with outcome out: the tree it leaves,
\* and the observation of the call
Observe(op, user_id, arg, out) ==
    /\ fsOps < MaxFsOps
    /\ fsOps' = fsOps + 1
    /\ clock' = clock + 1
    /\ disk' = out.disk
    /\ dirs' = Existing(out.disk)
    /\ lastOp' = [op |-> op, user_id |-> user_id, arg |-> arg,
                  raised |-> out.raised, ret |-> out.ret,
                  before |-> disk, at |-> clock]
    /\ UNCHANGED <<loop, built, max_iterations, lastSwitch, switches, reqVars,
                   retryVars, histVars>>

\* the ids of made whose workspace directory is still there
StillThere(d, S) == {x \in S : exists(d, Parts(get_workspace_path(x)))}

\* WorkspaceManager.create_workspace(u, template_data)
CreateWorkspace(u) ==
    \E td \in TemplateData :
        LET out == create_workspace(disk, u, td, clock)
        IN  /\ Observe("create_workspace", u, td, out)
            /\ made' = IF out.raised = Ok
                       THEN StillThere(out.disk, made) \cup {u}
                       ELSE StillThere(out.disk, made)
            /\ store' = ClearSessions(store, get_workspace_path(u))

\* WorkspaceManager.delete_workspace(u)
DeleteWorkspace(u) ==
    LET out == delete_workspace(disk, u)
    IN  /\ Observe("delete_workspace", u, NoData, out)
        /\ made' = StillThere(out.disk, made)
        /\ store' = IF out.ret THEN ClearSessions(store, get_workspace_path(u))
                    ELSE store

\* WorkspaceManager.clone_template(s, t)
CloneTemplate(s, t) ==
    LET out == clone_template(disk, s, t, clock)
    IN  /\ Observe("clone_template", t, [source |-> s], out)
        /\ made' = IF out.disk # disk
                   THEN StillThere(out.disk, made) \cup {t}
                   ELSE made
        /\ store' = IF out.disk # disk
                    THEN ClearSessions(store, get_workspace_path(t))
                    ELSE store

\* UserConfigManager.get_config(u)
GetConfig(u) ==
    /\ Observe("get_config", u, NoData, get_config(disk, u, clock))
    /\ UNCHANGED <<made, store>>

\* UserConfigManager.create_user(u, initial_data)
CreateUser(u) ==
    \E data \in InitialData :
        /\ Observe("create_user", u, data, create_user(disk, u, data, clock))
        /\ UNCHANGED <<made, store>>

\* UserConfigManager.update_watchlist(u, watchlist_data)
UpdateWatchlist(u) ==
    \E data \in WatchlistData :
        /\ Observe("update_watchlist", u, data,
                   update_watchlist(disk, u, data, clock))
        /\ UNCHANGED <<made, store>>

\* UserConfigManager.update_preferences(u, prefs_data)
UpdatePreferences(u) ==
    \E data \in PrefsData :
        /\ Observe("update_preferences", u, data,
                   update_preferences(disk, u, data, clock))
        /\ UNCHANGED <<made, store>>

\* UserConfigManager.save_config(config)
SaveConfigOf(config) ==
    /\ Observe("save_config", config.user_id, config,
               save_config(disk, config, FALSE, clock))
    /\ UNCHANGED <<made, store>>

\* UserConfigManager.save_config(config) with a config a caller holds
SaveConfig(u) == \E config \in SaveConfigs(u) : SaveConfigOf(config)

\* UserConfig.from_dict(config.to_dict())
FromDictToDict(config) ==
    /\ Observe("from_dict", config.user_id, config,
               [raised |-> Ok, ret |-> from_dict(to_dict(config), clock),
                disk |-> disk])
    /\ UNCHANGED <<made, store>>

\* UserConfigManager.delete_user(u)
DeleteUser(u) ==
    /\ Observe("delete_user", u, NoData, delete_user(disk, u))
    /\ UNCHANGED <<made, store>>

\* DELETE /users/{u}
ApiDeleteUser(u) ==
    LET out == api_delete_user(disk, u, clock)
    IN  /\ Observe("api_delete_user", u, NoData, out)
        /\ made' = IF out.ret THEN StillThere(out.disk, made) \ {u} ELSE made
        /\ store' = IF out.ret THEN ClearSessions(store, get_workspace_path(u))
                    ELSE store

\* a caller (the report generator, the API) calls switch_workspace(u)
SwitchWorkspace(u) ==
    /\ switches < MaxSwitches
    /\ switches' = switches + 1
    /\ LET sw == switch_workspace(loop, built, dirs, u)
       IN /\ loop' = sw.loop
          /\ built' = sw.built
          /\ lastSwitch' = SwitchRecord(loop, built, dirs, u, sw)
    /\ UNCHANGED <<dirs, store, max_iterations, fsOps, reqVars, diskVars, retryVars, histVars>>

\* process_for_user(u, Content(r), session_key = k) up to its first
\* suspension point
ProcessForUserKeyed(r, u, k) ==
    /\ pc[r] = "idle"
    /\ user' = [user EXCEPT ![r] = u]
    /\ LET sw == switch_workspace(loop, built, dirs, u)
       IN /\ lastSwitch' = SwitchRecord(loop, built, dirs, u, sw)
          /\ IF sw.outcome = "ValueError"
             THEN /\ Put(r, [Req(r) EXCEPT !.pc = "raised",
                                           !.result = Raised("ValueError")])
                  /\ loop' = sw.loop
                  /\ built' = sw.built
                  /\ store' = store
             ELSE LET out == process_direct(Req(r), sw.loop, sw.built, store,
                                            Content(r),
                                            session_key_for(u, k),
                                            Channel(r),
                                            chat_id_for(u, ChatId(r)),
                                            max_iterations)
                  IN /\ Put(r, out.q)
                     /\ loop' = out.loop
                     /\ built' = out.built
                     /\ store' = out.store
    /\ UNCHANGED <<dirs, max_iterations, switches, fsOps, replies, diskVars, retryVars, histVars>>

\* process_direct(Content(r)) called without process_for_user, with the
\* default session key, channel and chat id, up to its first suspension
\* point
ProcessDirect(r) ==
    /\ pc[r] = "idle"
    /\ LET out == process_direct(Req(r), loop, built, store, Content(r),
                                 "cli:direct", "cli", "direct", max_iterations)
       IN  /\ Put(r, out.q)
           /\ loop' = out.loop
           /\ built' = out.built
           /\ store' = out.store
    /\ UNCHANGED <<dirs, max_iterations, lastSwitch, switches, fsOps, user,
                   replies, diskVars, retryVars, histVars>>

\* process_for_user(u, Content(r)) with the session key of request r
ProcessForUser(r, u) == ProcessForUserKeyed(r, u, SessionKey(r))

\* process_for_user hands its response, or its exception, to the caller
\* (line 292): the invocation is over, and when it returned a response the
\* caller has seen the message it sent and the response
Return(r) ==
    /\ pc[r] \in {"done", "raised"}
    /\ log' = Append(log, [user |-> user[r], key |-> session[r].key,
                           turns |-> IF pc[r] = "done"
                                     THEN <<Msg("user", Content(r)),
                                            Msg("assistant", result[r].value)>>
                                     ELSE <<>>])
    /\ Put(r, IdleReq)
    /\ user' = [user EXCEPT ![r] = NoUser]
    /\ replies' = [replies EXCEPT ![r] = <<>>]
    /\ UNCHANGED <<dirs, store, loop, built, max_iterations, lastSwitch, switches,
                   fsOps, diskVars, retryVars, named, lastExec, copies, busVars>>

\* a channel publishes an inbound message on the bus; each message is
\* processed in a frame of its own
PublishInbound(r, u, k) ==
    /\ \A i \in 1..Len(inbox) : inbox[i].slot # r
    /\ \A i \in 1..Len(gw.consumed) : gw.consumed[i].slot # r
    /\ inbox' = Append(inbox, Inbound(r, u, k))
    /\ UNCHANGED <<dirs, store, loop, built, max_iterations, lastSwitch, switches,
                   fsOps, reqVars, diskVars, retryVars, named, lastExec, copies,
                   log, outbox, gw>>

\* run consumes the next message and dispatches it; when the processing
\* is over without a suspension the result is published at once
Consume ==
    /\ gw.pc = "waiting"
    /\ inbox # <<>>
    /\ LET msg == Head(inbox)
           r == msg.slot
           out == run_dispatch(msg, Req(r), loop, built, dirs, store,
                               max_iterations)
           over == out.q.pc \in {"done", "raised"}
       IN  /\ pc[r] = "idle"
           /\ inbox' = Tail(inbox)
           /\ user' = [user EXCEPT ![r] = out.user]
           /\ lastSwitch' = IF out.switched
                            THEN SwitchRecord(loop, built, dirs, out.user,
                                              switch_workspace(loop, built, dirs,
                                                               out.user))
                            ELSE lastSwitch
           /\ Put(r, out.q)
           /\ loop' = out.loop
           /\ built' = out.built
           /\ store' = out.store
           /\ outbox' = IF over THEN run_publish(outbox, msg, out.q) ELSE outbox
           /\ gw' = [pc |-> IF over THEN "waiting" ELSE "processing",
                     msg |-> msg, consumed |-> Append(gw.consumed, msg)]
    /\ UNCHANGED <<dirs, max_iterations, switches, fsOps, replies, diskVars,
                   retryVars, named, lastExec, copies, log>>

\* the awaited processing is over: run publishes the response or the
\* error text and waits for the next message
Deliver ==
    /\ gw.pc = "processing"
    /\ pc[gw.msg.slot] \in {"done", "raised"}
    /\ outbox' = run_publish(outbox, gw.msg, Req(gw.msg.slot))
    /\ gw' = [gw EXCEPT !.pc = "waiting"]
    /\ UNCHANGED <<dirs, store, loop, built, max_iterations, lastSwitch, switches,
                   fsOps, reqVars, diskVars, retryVars, named, lastExec, copies,
                   log, inbox>>

\* the number of tool calls executed so far in a buffer
ToolTurns(msgs) == Cardinality({j \in 1..Len(msgs) : msgs[j].role = "tool"})

\* the model call of request r returns a reply
ModelReplies(r, reply) ==
    /\ pc[r] = "chat"
    /\ ToolTurns(messages[r]) + Len(reply.tool_calls) <= MaxToolCalls
    /\ replies' = [replies EXCEPT ![r] = Append(@, Observed(reply))]
    /\ LET out == on_reply(Req(r), loop, store, Content(r), max_iterations, reply)
       IN Put(r, out.q) /\ store' = out.store
    /\ UNCHANGED <<dirs, loop, built, max_iterations, lastSwitch, switches, fsOps, user, diskVars, retryVars, histVars>>

\* the model call of request r raises
ModelFails(r) ==
    /\ pc[r] = "chat"
    /\ replies' = [replies EXCEPT ![r] = Append(@, [kind |-> "failed", content |-> NoText])]
    /\ Put(r, on_model_failure(Req(r)))
    /\ UNCHANGED <<dirs, store, loop, built, max_iterations, lastSwitch, switches,
                   fsOps, user, diskVars, retryVars, histVars>>

\* the tool execution of request r that is in flight returns
ToolReturns(r, i, fails) ==
    /\ pc[r] = "tool"
    /\ i \in running[r]
    /\ LET res == execute(toolReg[r], calls[r][i].name, fails)
           out == on_tool_result(Req(r), loop, store, Content(r), max_iterations, i, res)
       IN Put(r, out.q) /\ store' = out.store
    /\ UNCHANGED <<dirs, loop, built, max_iterations, lastSwitch, switches, fsOps,
                   user, replies, diskVars, retryVars, histVars>>

\* what the report model can answer: one registered tool, a text, an empty
\* text or no text at all
RetryReplies(it) ==
    {[content |-> "", tool_calls |-> <<ToolCall(it, 1, "write_file")>>],
     [content |-> "answer", tool_calls |-> <<>>],
     [content |-> "", tool_calls |-> <<>>],
     [content |-> NoText, tool_calls |-> <<>>]}

\* the wrapper got to c.w with the tree d and the directories ds: when it
\* is over, generate_report saves the report and builds its dict,
\* _generate_report_task logs it and generate_report_now returns
Settle(rep, c, d, ds) ==
    /\ retry' = c.w
    /\ Put("r1", c.q)
    /\ store' = c.store
    /\ loop' = c.loop
    /\ built' = c.built
    /\ lastSwitch' = IF c.switched
                     THEN SwitchRecord(loop, built, ds, c.w.user_id,
                                       switch_workspace(loop, built, ds, c.w.user_id))
                     ELSE lastSwitch
    /\ IF c.w.pc \in {"returned", "raised"}
       THEN LET fin == generate_report_end(d, c.w, clock)
            IN  /\ disk' = fin.disk
                /\ dirs' = Existing(fin.disk)
                /\ report' = [rep EXCEPT !.pc = "done", !.ran = TRUE,
                                         !.outcome = fin.ret,
                                         !.ret = IF rep.direct THEN None
                                                 ELSE task_end(TRUE, fin.ret, clock)]
       ELSE /\ disk' = d
            /\ dirs' = Existing(d)
            /\ report' = [rep EXCEPT !.pc = "running", !.ran = TRUE]
    /\ UNCHANGED <<max_iterations, switches, fsOps, clock, lastOp, made, gen,
                   histVars>>

\* ReportScheduler.generate_report_now(u, t) up to its first suspension
\* point: _generate_report_task reads the configuration and calls
\* generate_report, which reads it again, builds the prompt and enters
\* _call_llm_with_retry
GenerateReportNow(u, t) ==
    /\ report.pc = "idle"
    /\ pc["r1"] = "idle"
    /\ LET g1 == get_config(disk, u, clock)
           g2 == get_config(g1.disk, u, clock)
           rep == [report EXCEPT !.user_id = u, !.report_type = t]
       IN  IF g1.raised # Ok \/ g1.ret = NoConfig
           THEN /\ report' = [rep EXCEPT !.pc = "done",
                                         !.ret = task_end(FALSE, NoOutcome, clock)]
                /\ disk' = g1.disk
                /\ dirs' = Existing(g1.disk)
                /\ UNCHANGED <<store, loop, built, max_iterations, lastSwitch,
                               switches, fsOps, reqVars, clock, lastOp, made,
                               gen, retry, histVars>>
           ELSE /\ Settle([rep EXCEPT !.had_config = TRUE],
                          call_llm_with_retry(gen, u, t, Req("r1"), loop, built,
                                              Existing(g2.disk), store,
                                              max_iterations),
                          g2.disk, Existing(g2.disk))
                /\ user' = [user EXCEPT !["r1"] = u]
                /\ UNCHANGED replies

\* ReportGenerator.generate_report(u, t), called directly as the example
\* script does, up to its first suspension point: without a configuration
\* the ValueError of line 151 is caught at line 216 and the failure dict
\* is returned; otherwise the prompt is built and _call_llm_with_retry
\* entered
GenerateReport(u, t) ==
    /\ report.pc = "idle"
    /\ pc["r1"] = "idle"
    /\ LET g == get_config(disk, u, clock)
           rep == [report EXCEPT !.user_id = u, !.report_type = t,
                                 !.direct = TRUE]
       IN  IF g.raised # Ok \/ g.ret = NoConfig
           THEN /\ report' = [rep EXCEPT
                                 !.pc = "done", !.ran = TRUE,
                                 !.outcome = Failure(
                                     IF g.raised # Ok THEN Error(g.raised, u)
                                     ELSE Error("ValueError", u))]
                /\ disk' = g.disk
                /\ dirs' = Existing(g.disk)
                /\ UNCHANGED <<store, loop, built, max_iterations, lastSwitch,
                               switches, fsOps, reqVars, clock, lastOp, made,
                               gen, retry, histVars>>
           ELSE /\ Settle([rep EXCEPT !.had_config = TRUE],
                          call_llm_with_retry(gen, u, t, Req("r1"), loop, built,
                                              Existing(g.disk), store,
                                              max_iterations),
                          g.disk, Existing(g.disk))
                /\ user' = [user EXCEPT !["r1"] = u]
                /\ UNCHANGED replies

\* the model call of the attempt in progress returns a reply
RetryModelReplies(reply) ==
    /\ retry.pc = "loop"
    /\ pc["r1"] = "chat"
    /\ ToolTurns(messages["r1"]) + Len(reply.tool_calls) <= MaxToolCalls
    /\ replies' = [replies EXCEPT !["r1"] = Append(@, Observed(reply))]
    /\ LET out == on_reply(Req("r1"), loop, store,
                           Prompt(retry.user_id, retry.report_type),
                           max_iterations, reply)
       IN  Settle(report, [w |-> after_call(retry, gen, out.q, ""), q |-> out.q,
                           store |-> out.store, loop |-> loop, built |-> built,
                           switched |-> FALSE],
                  disk, dirs)
    /\ UNCHANGED user

\* the model call of the attempt in progress raises
RetryModelFails(fault) ==
    /\ retry.pc = "loop"
    /\ pc["r1"] = "chat"
    /\ replies' = [replies EXCEPT !["r1"] =
                       Append(@, [kind |-> "failed", content |-> NoText])]
    /\ LET q == on_model_failure(Req("r1"))
       IN  Settle(report, [w |-> after_call(retry, gen, q, fault), q |-> q,
                           store |-> store, loop |-> loop, built |-> built,
                           switched |-> FALSE],
                  disk, dirs)
    /\ UNCHANGED user

\* the tool execution of the attempt in progress returns
RetryToolReturns(i, fails) ==
    /\ retry.pc = "loop"
    /\ pc["r1"] = "tool"
    /\ i \in running["r1"]
    /\ LET res == execute(toolReg["r1"], calls["r1"][i].name, fails)
           out == on_tool_result(Req("r1"), loop, store,
                                 Prompt(retry.user_id, retry.report_type),
                                 max_iterations, i, res)
       IN  Settle(report, [w |-> after_call(retry, gen, out.q, ""), q |-> out.q,
                           store |-> out.store, loop |-> loop, built |-> built,
                           switched |-> FALSE],
                  disk, dirs)
    /\ UNCHANGED <<user, replies>>

\* the backoff sleep is over: the next attempt starts
Wake ==
    /\ retry.pc = "sleep"
    /\ Settle(report, next_attempt(retry, gen, Req("r1"), loop, built, dirs,
                                   store, max_iterations),
              disk, dirs)
    /\ UNCHANGED <<user, replies>>

\* what other callers do while the wrapper sleeps between two attempts
Meanwhile(A) == retry.pc = "sleep" /\ A

\* tenants whose workspace exists at the start, each with the session an
\* earlier completed invocation left under its default key
Provisioned == {"a", "b"}
EarlierSessions(p) ==
    [k \in {default_session_key(t) : t \in {x \in {"a"} : get_workspace_path(x) = p}}
        |-> <<Msg("user", "earlier msg"), Msg("assistant", "earlier answer")>>]

\* the tree after create_workspace for each provisioned tenant
ProvisionedDisk ==
    create_workspace(create_workspace(EmptyDisk, "a", NoData, 0).disk,
                     "b", NoData, 0).disk

\* no switch made, no request started
Quiet ==
    /\ built = 0
    /\ lastSwitch = NoSwitch
    /\ switches = 0
    /\ fsOps = 0
    /\ pc = [r \in Requests |-> "idle"]
    /\ user = [r \in Requests |-> NoUser]
    /\ session = [r \in Requests |-> NoSession]
    /\ messages = [r \in Requests |-> <<>>]
    /\ iteration = [r \in Requests |-> 0]
    /\ calls = [r \in Requests |-> <<>>]
    /\ running = [r \in Requests |-> {}]
    /\ toolReg = [r \in Requests |-> NoObj]
    /\ modelCalls = [r \in Requests |-> 0]
    /\ replies = [r \in Requests |-> <<>>]
    /\ result = [r \in Requests |-> NoResult]
    /\ saves = [r \in Requests |-> <<>>]
    /\ trace = [r \in Requests |-> <<>>]
    /\ addressing = NoAddressing
    /\ named = <<>>
    /\ lastExec = NoExec
    /\ copies = [w \in Writers |-> NoCopy]
    /\ log = <<>>
    /\ inbox = <<>>
    /\ outbox = <<>>
    /\ gw = Waiting
    /\ retry = IdleWrapper
    /\ report = NoReport

\* the provisioned tenants, a loop with any max_iterations, nothing started
Start ==
    /\ disk = ProvisionedDisk
    /\ clock = 1
    /\ lastOp = NoOp
    /\ made = Provisioned
    /\ dirs = Existing(disk)
    /\ store = [p \in Paths |-> IF p \in dirs THEN EarlierSessions(p) ELSE NoSessions]
    /\ max_iterations \in 0..MaxIter
    /\ gen = DefaultGenerator
    /\ Quiet

\* the loop constructed without a cron service (as api/main.py does)
Init == Start /\ loop = InitLoop

\* the loop constructed without or with a cron service
CronInit == Start /\ loop \in Loops

\* the steps of request r
Step(r) ==
    \/ \E u \in Tenants : ProcessForUser(r, u)
    \/ \E reply \in Replies(iteration[r]) : ModelReplies(r, reply)
    \/ ModelFails(r)
    \/ \E i \in 1..MaxCalls, fails \in BOOLEAN : ToolReturns(r, i, fails)

\* while r1 is suspended, a second request arrives, for any tenant, and
\* runs up to its first model call
OtherArrives(u) ==
    /\ pc["r1"] \in {"chat", "tool"}
    /\ ProcessForUser("r2", u)

\* One invocation r1 against every behaviour of the model and of the tools,
\* interleaved with the arrival of a second request r2.
Next ==
    \/ Step("r1")
    \/ \E u \in Tenants : OtherArrives(u)

Spec == Init /\ [][Next]_vars

\* The tenant context switcher alone: callers switch the slot while
\* workspaces are created and deleted.
SwitchNext ==
    \/ \E u \in Tenants : CreateWorkspace(u)
    \/ \E u \in Tenants : DeleteWorkspace(u)
    \/ \E u \in Tenants : SwitchWorkspace(u)

SwitchSpec == Init /\ [][SwitchNext]_vars

\* replies of a model that asks for one registered tool or answers
ConcReplies(it) ==
    {[content |-> "", tool_calls |-> <<ToolCall(it, 1, "write_file")>>],
     [content |-> "answer", tool_calls |-> <<>>]}

\* The slot under every sequence of switch_workspace calls, for tenants
\* with and without workspace, while workspaces are deleted and while one
\* process_direct call is made on whatever the slot holds.
SlotNext ==
    \/ \E u \in Tenants : SwitchWorkspace(u)
    \/ \E u \in PlainIds : DeleteWorkspace(u)
    \/ ProcessDirect("r1")
    \/ \E reply \in ConcReplies(iteration["r1"]) : ModelReplies("r1", reply)
    \/ ModelFails("r1")
    \/ \E i \in 1..MaxCalls : ToolReturns("r1", i, FALSE)

SlotSpec == Init /\ [][SlotNext]_vars

\* Two requests in flight at the same time, interleaved at their suspension
\* points, with a model and tools that do not fail.
ConcStep(r) ==
    \/ \E u \in Tenants : ProcessForUser(r, u)
    \/ \E reply \in ConcReplies(iteration[r]) : ModelReplies(r, reply)
    \/ \E i \in 1..MaxCalls : ToolReturns(r, i, FALSE)

ConcNext == \E r \in Requests : ConcStep(r)

ConcSpec == Init /\ [][ConcNext]_vars

\* The same two requests on a loop constructed without or with a cron
\* service.
ContextSpec == CronInit /\ [][ConcNext]_vars

\* the session keys callers pass: r1 passes none, r2 a key of its own
SerialKeys == {NoText, "chat"}
SerialKey(r) == IF r = "r1" THEN NoText ELSE "chat"

\* Invocations one after the other: a request starts only when no other is
\* in flight, for any tenant, and runs to its end against a model that asks
\* for a tool, answers or fails.
SerialStep(r) ==
    \/ /\ \A o \in Requests : pc[o] = "idle"
       /\ Len(log) < MaxInvocations
       /\ \E u \in Tenants : ProcessForUserKeyed(r, u, SerialKey(r))
    \/ \E reply \in ConcReplies(iteration[r]) : ModelReplies(r, reply)
    \/ ModelFails(r)
    \/ \E i \in 1..MaxCalls : ToolReturns(r, i, FALSE)
    \/ Return(r)

SerialNext == \E r \in Requests : SerialStep(r)

SerialInit == Init /\ max_iterations = MaxIter

SerialSpec == SerialInit /\ [][SerialNext]_vars

\* the tenant ids inbound messages carry in their metadata (none, a
\* provisioned tenant, a tenant without workspace) and their session keys
GatewayUsers == {NoUser, "a", "c"}
GatewayKeys == {"telegram:chat", "user_b:chat"}

\* Gateway mode: channels publish inbound messages, run consumes them one
\* after the other and processes each against a model that asks for a
\* tool, answers, answers with an empty text or with none, or fails.
GatewayStep(r) ==
    \/ \E u \in GatewayUsers, k \in GatewayKeys : PublishInbound(r, u, k)
    \/ \E reply \in RetryReplies(iteration[r]) : ModelReplies(r, reply)
    \/ ModelFails(r)
    \/ \E i \in 1..MaxCalls, fails \in BOOLEAN : ToolReturns(r, i, fails)

GatewayNext ==
    \/ \E r \in Requests : GatewayStep(r)
    \/ Consume
    \/ Deliver

GatewaySpec == Init /\ [][GatewayNext]_vars

\* A tenant's workspace in use and then created again: a report is
\* generated, the watchlist is updated, and create_workspace is called for
\* a tenant whose workspace exists.
Outside(A) == report.pc # "running" /\ A

RebuildNext ==
    \/ \E u \in PlainIds, t \in ReportTypes : GenerateReport(u, t)
    \/ \E reply \in ConcReplies(iteration["r1"]) : RetryModelReplies(reply)
    \/ \E i \in 1..MaxCalls : RetryToolReturns(i, FALSE)
    \/ \E u \in PlainIds : Outside(UpdateWatchlist(u))
    \/ \E u \in PlainIds : Outside(CreateWorkspace(u))

RebuildSpec == Init /\ [][RebuildNext]_vars

\* Configuration updates for the provisioned tenants, issued at any point of
\* a request of tenant a that is suspended at its model and tool calls.
UpdateNext ==
    \/ \E u \in PlainIds : UpdateWatchlist(u)
    \/ \E u \in PlainIds : UpdatePreferences(u)
    \/ ProcessForUser("r1", "a")
    \/ \E reply \in ConcReplies(iteration["r1"]) : ModelReplies("r1", reply)
    \/ \E i \in 1..MaxCalls : ToolReturns("r1", i, FALSE)

UpdateSpec == Init /\ [][UpdateNext]_vars

\* WorkspaceManager and UserConfigManager on the same, initially empty,
\* base path: every sequence of their operations.
FsInit ==
    /\ disk = EmptyDisk
    /\ clock = 1
    /\ lastOp = NoOp
    /\ made = {}
    /\ dirs = {}
    /\ store = [p \in Paths |-> NoSessions]
    /\ max_iterations = MaxIter
    /\ loop = InitLoop
    /\ gen = DefaultGenerator
    /\ Quiet

\* every operation of the two managers, on the ids of S
ManagerOps(S) ==
    \/ \E u \in S : CreateWorkspace(u)
    \/ \E u \in S : DeleteWorkspace(u)
    \/ \E s \in S, t \in S : CloneTemplate(s, t)
    \/ \E u \in S : GetConfig(u)
    \/ \E u \in S : CreateUser(u)
    \/ \E u \in S : UpdateWatchlist(u)
    \/ \E u \in S : UpdatePreferences(u)
    \/ \E u \in S : SaveConfig(u)
    \/ \E u \in S : DeleteUser(u)
    \/ \E u \in S : ApiDeleteUser(u)

\* with ids that contain no path separator
FsNext == ManagerOps(PlainIds)

FsSpec == FsInit /\ [][FsNext]_vars

\* the configurations handed to to_dict and save_config: for a tenant
\* without workspace and for an id with a path separator, with empty and filled watchlist,
\* default and changed preferences, and without custom data at version 1.0
\* or with custom data at another version
RoundTripIds == {"c", NestedId}
RoundTripConfigs ==
    {[user_id |-> u, created_at |-> 0, updated_at |-> 0, watchlist |-> w,
      preferences |-> p, custom_data |-> x.custom_data, version |-> x.version] :
        u \in RoundTripIds,
        w \in {DefaultWatchlist,
               [DefaultWatchlist EXCEPT !.stocks = <<"AAPL", "TSLA">>,
                                        !.sectors = <<"tech">>]},
        p \in {DefaultPreferences,
               [DefaultPreferences EXCEPT !.language = "en",
                                          !.max_report_length = 800,
                                          !.notification_channels = <<>>]},
        x \in {[custom_data |-> NoData, version |-> "1.0"],
               [custom_data |-> [source |-> "test"], version |-> "2.0"]}}

\* Configurations converted to dictionaries and back, saved and read, next
\* to the workspaces of the provisioned tenants.
RoundTripNext ==
    \/ \E config \in RoundTripConfigs : FromDictToDict(config)
    \/ \E config \in RoundTripConfigs : SaveConfigOf(config)
    \/ \E u \in RoundTripIds : GetConfig(u)

RoundTripInit == Init /\ max_iterations = MaxIter

RoundTripSpec == RoundTripInit /\ [][RoundTripNext]_vars

\* with any id, also one that contains the path separator
PathNext == ManagerOps(Ids)

PathSpec == FsInit /\ [][PathNext]_vars

\* Unattended report generation: one generate_report_now call, for every
\* ReportGenerator configuration, against every behaviour of the model and
\* of the tools.
RetryInit ==
    /\ disk = ProvisionedDisk
    /\ clock = 1
    /\ lastOp = NoOp
    /\ made = Provisioned
    /\ dirs = Existing(disk)
    /\ store = [p \in Paths |-> NoSessions]
    /\ max_iterations = MaxIter
    /\ loop = InitLoop
    /\ gen \in Generators
    /\ Quiet

RetrySteps ==
    \/ \E u \in Tenants, t \in ReportTypes : GenerateReportNow(u, t)
    \/ \E reply \in RetryReplies(iteration["r1"]) : RetryModelReplies(reply)
    \/ \E fault \in ModelFaults : RetryModelFails(fault)
    \/ \E i \in 1..MaxCalls, fails \in BOOLEAN : RetryToolReturns(i, fails)
    \/ Wake

RetryNext == RetrySteps

RetrySpec == RetryInit /\ [][RetryNext]_vars

\* The same call with the generator the API server constructs; during the
\* backoff sleeps other callers delete workspaces and switch the slot.
RaceInit == RetryInit /\ gen = DefaultGenerator

RaceNext ==
    \/ RetrySteps
    \/ \E u \in PlainIds : Meanwhile(DeleteWorkspace(u))
    \/ \E u \in Tenants : Meanwhile(SwitchWorkspace(u))

RaceSpec == RaceInit /\ [][RaceNext]_vars

\* The wrapper between its attempts: the report of one tenant is
\* generated against a model that asks for a tool, answers or fails; during
\* the backoff sleeps the tenant's workspace is deleted and created again
\* and callers switch the slot to other tenants.
RecoverNext ==
    \/ \E t \in ReportTypes : GenerateReportNow("a", t)
    \/ \E reply \in ConcReplies(iteration["r1"]) : RetryModelReplies(reply)
    \/ \E fault \in ModelFaults : RetryModelFails(fault)
    \/ \E i \in 1..MaxCalls : RetryToolReturns(i, FALSE)
    \/ Wake
    \/ Meanwhile(DeleteWorkspace(retry.user_id))
    \/ Meanwhile(CreateWorkspace(retry.user_id))
    \/ \E u \in Tenants \ {retry.user_id} : Meanwhile(SwitchWorkspace(u))

RecoverSpec == RaceInit /\ [][RecoverNext]_vars

\* generate_report called directly, for every ReportGenerator
\* configuration, for a tenant with and one without configuration; while
\* the call is suspended the tenant's workspace may be deleted.
During(A) == report.pc = "running" /\ A

ReportNext ==
    \/ \E u \in {"a", "c"}, t \in ReportTypes : GenerateReport(u, t)
    \/ \E reply \in RetryReplies(iteration["r1"]) : RetryModelReplies(reply)
    \/ \E fault \in ModelFaults : RetryModelFails(fault)
    \/ \E i \in 1..MaxCalls : RetryToolReturns(i, FALSE)
    \/ Wake
    \/ During(DeleteWorkspace(report.user_id))

ReportSpec == RetryInit /\ [][ReportNext]_vars

\* the changes a writer makes to the UserConfig object it holds
Changes == {[rec |-> "watchlist", data |-> [stocks |-> <<"AAPL", "TSLA">>]],
            [rec |-> "preferences", data |-> [language |-> "en"]]}

\* what the writer actions leave alone
WriterFrame ==
    UNCHANGED <<store, loop, built, max_iterations, lastSwitch, switches, fsOps,
                reqVars, made, retryVars, named, lastExec, log, busVars>>

\* writer w reads the configuration of u: config = get_config(u)
WriterReads(w, u) ==
    /\ copies[w].pc = "idle"
    /\ LET g == get_config(disk, u, clock)
       IN  /\ g.raised = Ok /\ g.ret # NoConfig
           /\ copies' = [copies EXCEPT ![w] = [pc |-> "read", config |-> g.ret]]
           /\ disk' = g.disk
           /\ dirs' = Existing(g.disk)
    /\ clock' = clock + 1
    /\ UNCHANGED lastOp
    /\ WriterFrame

\* writer w changes the object it holds: config.update_watchlist(...) or
\* config.update_preferences(...)
WriterModifies(w, ch) ==
    /\ copies[w].pc = "read"
    /\ copies' = [copies EXCEPT ![w] =
                     [pc |-> "modified",
                      config |-> IF ch.rec = "watchlist"
                                 THEN config_update_watchlist(@.config, ch.data, clock)
                                 ELSE config_update_preferences(@.config, ch.data, clock)]]
    /\ clock' = clock + 1
    /\ UNCHANGED <<disk, dirs, lastOp>>
    /\ WriterFrame

\* writer w saves the object it holds: save_config(config)
WriterSaves(w) ==
    /\ copies[w].pc = "modified"
    /\ LET out == save_config(disk, copies[w].config, FALSE, clock)
       IN  /\ disk' = out.disk
           /\ dirs' = Existing(out.disk)
           /\ lastOp' = [op |-> "save_config", user_id |-> copies[w].config.user_id,
                         arg |-> copies[w].config, raised |-> out.raised,
                         ret |-> out.ret, before |-> disk, at |-> clock]
           /\ copies' = [copies EXCEPT ![w] = [pc |-> "saved", config |-> out.ret]]
    /\ clock' = clock + 1
    /\ WriterFrame

\* Two writers that read, change and save configurations, interleaved in
\* every way, on the tree of the provisioned tenants.
WriterNext ==
    \E w \in Writers :
        \/ \E u \in Provisioned : WriterReads(w, u)
        \/ \E ch \in Changes : WriterModifies(w, ch)
        \/ WriterSaves(w)

WriterSpec == RaceInit /\ [][WriterNext]_vars

\* a tool of the registry the slot holds is executed on a path inside an
\* existing workspace, with exec_config.restrict_to_workspace as configured
ExecuteTool(name, target, restrict) ==
    /\ loop.tools # NoObj
    /\ target \in dirs
    /\ lastExec' = [name |-> name, via |-> loop.tools, target |-> target,
                    restrict |-> restrict,
                    touched |-> run_tool(loop.tools, name, target, restrict)]
    /\ UNCHANGED <<dirs, store, loop, built, max_iterations, lastSwitch, switches,
                   fsOps, reqVars, diskVars, retryVars, named, copies, log, busVars>>

\* Callers switch the slot and run tools through the registry it holds.
ToolNext ==
    \/ \E u \in Tenants : SwitchWorkspace(u)
    \/ \E name \in FileTools \cup ShellTools, target \in Paths, restrict \in BOOLEAN :
           ExecuteTool(name, target, restrict)

ToolSpec == Init /\ [][ToolNext]_vars

\* tenant ids and session keys handed to process_for_user: user_id is any
\* string (the API asks for 3 to 50 characters), so also one with a colon;
\* the keys are none, plain ones, and ones that carry a tenant prefix
KeyTenants == {"a", "b", "a:b", TaggedId}
RawKeys == {NoText, "default", "chat", "b:default", "user_a:chat", "user_a:b:chat"}

\* process_for_user(u, _, session_key = k): the key it hands to process_direct
NameKey(u, k) ==
    /\ Len(named) < MaxNamed
    /\ named' = Append(named, [user_id |-> u, given |-> k,
                               key |-> session_key_for(u, k),
                               again |-> session_key_for(u, session_key_for(u, k)),
                               routed |-> extract_user_id(NoUser,
                                                          session_key_for(u, k))])
    /\ UNCHANGED <<dirs, store, loop, built, max_iterations, lastSwitch, switches,
                   fsOps, reqVars, diskVars, retryVars, lastExec, copies, log,
                   busVars>>

\* The session keys of process_for_user, for every pair of calls.
KeyNext == \E u \in KeyTenants, k \in RawKeys : NameKey(u, k)

KeySpec == FsInit /\ [][KeyNext]_vars

-----------------------------------------------------------------------------
(* Properties of the tenant context switcher *)

\* the four components of slot l are of the four classes, were all built as
\* component set number n or later, and are bound to workspace ws
FreshFor(l, n, ws) ==
    /\ l.context.kind = "ContextBuilder"
    /\ l.sessions.kind = "SessionManager"
    /\ l.tools.kind = "ToolRegistry"
    /\ l.subagents.kind = "SubagentManager"
    /\ \A c \in Components(l) : c.ws = ws /\ c.id > n

\* C2: after switch_workspace(A) and then switch_workspace(B), A # B, both
\* succeeding, the slot names B and B's path, its four components are fresh
\* instances bound to B's path, none of A's instances is referenced any more,
\* and none was referenced when B's were constructed.
C2_SwitchRebindsToNewTenant ==
    (/\ lastSwitch.outcome = "switched"
     /\ lastSwitch.before.current_user_id \notin {NoUser, lastSwitch.user})
    => /\ loop.current_user_id = lastSwitch.user
       /\ loop.current_workspace = get_workspace(lastSwitch.user)
       /\ lastSwitch.ret = get_workspace(lastSwitch.user)
       /\ FreshFor(loop, lastSwitch.builtBefore, get_workspace(lastSwitch.user))
       /\ Components(loop) \cap Components(lastSwitch.before) = {}
       /\ lastSwitch.held = {}

\* a switch from tenant a to tenant b has succeeded
C2_Witness ==
    /\ lastSwitch.outcome = "switched"
    /\ lastSwitch.before.current_user_id = "a"
    /\ lastSwitch.before.tools.ws = get_workspace("a")
    /\ lastSwitch.user = "b"

\* C3: switch_workspace(A) while A is the active tenant returns the cached
\* path and leaves the slot and its four components the very same objects,
\* constructing nothing, however often it is repeated.
C3_ReactivationIsNoOp ==
    (/\ lastSwitch.outcome # "none"
     /\ lastSwitch.before.current_user_id = lastSwitch.user
     /\ lastSwitch.before.current_workspace # NoPath)
    => /\ lastSwitch.outcome = "cached"
       /\ lastSwitch.ret = lastSwitch.before.current_workspace
       /\ loop = lastSwitch.before
       /\ built = lastSwitch.builtBefore

\* the third switch_workspace("a") in a row: one construction only
C3_Witness ==
    /\ switches = 3
    /\ built = 1
    /\ lastSwitch.user = "a"
    /\ lastSwitch.before.current_user_id = "a"
    /\ loop.tools.id = 1

\* C4: switch_workspace(t) for a tenant whose workspace is not on disk at
\* the time of the call fails as tenant-not-found and leaves the active
\* tenant, the current workspace and the components unchanged.
C4_MissingWorkspaceFails ==
    (lastSwitch.outcome # "none" /\ ~lastSwitch.onDisk)
    => /\ lastSwitch.outcome = "ValueError"
       /\ loop = lastSwitch.before
       /\ built = lastSwitch.builtBefore

-----------------------------------------------------------------------------
(* Properties of process_for_user / process_direct *)

\* C1: with requests for different tenants in flight at the same time, every
\* tool execution of a request is issued on the registry bound to the
\* workspace of the request's own tenant, and its session is saved through
\* the session store bound to that workspace.
C1_RequestsUseOwnTenantComponents ==
    \A r \in Requests :
        /\ pc[r] = "tool" => toolReg[r].ws = get_workspace(user[r])
        /\ \A i \in 1..Len(saves[r]) : saves[r][i].via.ws = get_workspace(user[r])

\* process_direct was entered by request r
Entered(r) == pc[r] # "idle" /\ result[r] # Raised("ValueError")

\* every reply received so far asked for tools
AllTools(rs) == \A i \in 1..Len(rs) : rs[i].kind = "tools"

\* C5: the number of model calls never exceeds max_iterations, and against a
\* model that asks for tools in every reply an invocation ends, without
\* raising, right after the round of its max_iterations-th model call (at
\* once when max_iterations = 0) and returns the fixed fallback message.
C5_IterationBound ==
    \A r \in Requests :
        /\ modelCalls[r] <= max_iterations
        /\ iteration[r] = modelCalls[r]
        /\ (Entered(r) /\ AllTools(replies[r]) /\ pc[r] \in {"done", "raised"})
           => /\ pc[r] = "done"
              /\ modelCalls[r] = max_iterations
              /\ Len(replies[r]) = max_iterations
              /\ result[r] = Returned(Fallback)
        /\ (Entered(r) /\ AllTools(replies[r]) /\ Len(replies[r]) = max_iterations
                /\ running[r] = {})
           => pc[r] = "done"

\* an invocation with the largest budget ran out of it
C5_Witness ==
    \E r \in Requests :
        /\ max_iterations = MaxIter
        /\ pc[r] = "done"
        /\ AllTools(replies[r])
        /\ modelCalls[r] = MaxIter
        /\ result[r] = Returned(Fallback)

\* indices of the assistant turns of a buffer that record tool calls
ToolRounds(msgs) ==
    {i \in 1..Len(msgs) : msgs[i].role = "assistant" /\ msgs[i].tool_calls # <<>>}

SetMax(S) == CHOOSE x \in S : \A y \in S : y <= x

\* the number of turns that follow round a up to the next round or the end
Followers(msgs, a) ==
    LET later == {b \in ToolRounds(msgs) : b > a}
    IN IF later = {} THEN Len(msgs) - a
       ELSE (CHOOSE b \in later : \A c \in later : b <= c) - a - 1

\* C6: a reply with calls c1..cN is recorded in one assistant turn with all
\* N calls; the calls are executed one at a time in emission order, at most
\* one execution being in flight; the tool-result turns follow the assistant
\* turn in that order, each with its call's id and name; the next model call
\* (and the end of the invocation) comes only after all N results.
C6_ToolsInEmissionOrder ==
    \A r \in Requests :
        LET msgs == messages[r]
            RS == ToolRounds(msgs)
        IN /\ Cardinality(running[r]) <= 1
           /\ (pc[r] = "tool") <=> (running[r] # {})
           /\ Cardinality(RS) = Cardinality({i \in 1..Len(replies[r]) :
                                              replies[r][i].kind = "tools"})
           /\ \A j \in 1..Len(msgs) : msgs[j].role = "tool" => \E a \in RS : a < j
           /\ \A a \in RS :
                LET tc == msgs[a].tool_calls
                    m == Followers(msgs, a)
                IN /\ m <= Len(tc)
                   /\ \A i \in 1..m : /\ msgs[a + i].role = "tool"
                                      /\ msgs[a + i].tool_call_id = tc[i].id
                                      /\ msgs[a + i].name = tc[i].name
                   /\ (a # SetMax(RS) \/ pc[r] # "tool") => m = Len(tc)
                   /\ (a = SetMax(RS) /\ pc[r] = "tool")
                      => /\ m < Len(tc)
                         /\ running[r] = {m + 1}
                         /\ Len(calls[r]) = Len(tc)
                         /\ \A i \in 1..Len(tc) : /\ calls[r][i].id = tc[i].id
                                                  /\ calls[r][i].name = tc[i].name

\* after a reply with two calls both results are in the buffer, in order, and
\* the next model call is under way
C6_Witness ==
    \E r \in Requests :
        /\ pc[r] = "chat"
        /\ modelCalls[r] = 2
        /\ Len(messages[r]) >= 3
        /\ LET n == Len(messages[r])
           IN /\ messages[r][n - 2].role = "assistant"
              /\ Len(messages[r][n - 2].tool_calls) = 2
              /\ messages[r][n - 1].tool_call_id = messages[r][n - 2].tool_calls[1].id
              /\ messages[r][n].tool_call_id = messages[r][n - 2].tool_calls[2].id

\* the position of the user turn of request r in its buffer
UserTurn(r) ==
    CHOOSE i \in 1..Len(messages[r]) : messages[r][i] = Turn("user", Content(r), <<>>, 0, "")

\* the history request r loaded into its buffer
LoadedHistory(r) ==
    [i \in 1..(UserTurn(r) - 1) |-> Msg(messages[r][i].role, messages[r][i].content)]

\* C7: an invocation that ends (answer or exhausted budget) has appended to
\* its session exactly the user turn and the final content, after the history
\* it had loaded, and has saved the session exactly once, with no model call
\* or tool execution outstanding; while it runs nothing is appended or saved;
\* the assistant tool-call turns and the tool results are not in the session.
C7_SessionSavedOnceAtEnd ==
    \A r \in Requests :
        /\ pc[r] \in {"chat", "tool"}
           => /\ saves[r] = <<>>
              /\ session[r].messages = LoadedHistory(r)
        /\ pc[r] = "done"
           => /\ session[r].messages =
                    LoadedHistory(r) \o <<Msg("user", Content(r)),
                                          Msg("assistant", result[r].value)>>
              /\ Len(saves[r]) = 1
              /\ saves[r][1].key = session[r].key
              /\ saves[r][1].messages = session[r].messages
              /\ session[r].key \in DOMAIN store[saves[r][1].via.ws]
              /\ store[saves[r][1].via.ws][session[r].key] = session[r].messages
              /\ running[r] = {}
              /\ modelCalls[r] = Len(replies[r])
        /\ pc[r] \in {"idle", "raised"} => saves[r] = <<>>

\* an invocation with an earlier history ended after a round of tool calls
C7_Witness ==
    \E r \in Requests :
        /\ pc[r] = "done"
        /\ Len(LoadedHistory(r)) = 2
        /\ ToolRounds(messages[r]) # {}
        /\ Len(session[r].messages) = 4
        /\ replies[r][Len(replies[r])].kind = "final"

\* the content process_direct returns for a reply text t
FinalFor(t) == IF t = NoText THEN Fallback ELSE t

\* C8 (as amended): a reply without tool calls is the last reply: the
\* invocation ends there with no further model call or tool execution, and
\* the content returned and stored as the assistant turn is the reply's text
\* when it has one (the empty text included) and the fixed fallback message
\* when the text is absent.
C8_PlainReplyEndsLoop ==
    \A r \in Requests : \A i \in 1..Len(replies[r]) :
        replies[r][i].kind = "final"
        => /\ i = Len(replies[r])
           /\ pc[r] = "done"
           /\ modelCalls[r] = i
           /\ running[r] = {}
           /\ result[r] = Returned(FinalFor(replies[r][i].content))
           /\ session[r].messages[Len(session[r].messages)] =
                  Msg("assistant", FinalFor(replies[r][i].content))

\* an invocation ended by a reply with the empty text, after a round of tools
C8_Witness ==
    \E r \in Requests :
        /\ pc[r] = "done"
        /\ Len(replies[r]) = 2
        /\ replies[r][2] = [kind |-> "final", content |-> ""]
        /\ result[r] = Returned("")

\* C8 as claimed: the content returned and stored equals the reply's text for
\* every reply without tool calls, an absent text included.
C8_ReturnsReplyText ==
    \A r \in Requests : \A i \in 1..Len(replies[r]) :
        replies[r][i].kind = "final"
        => /\ pc[r] = "done"
           /\ result[r] = Returned(replies[r][i].content)
           /\ session[r].messages[Len(session[r].messages)] =
                  Msg("assistant", replies[r][i].content)

\* the number of the round recorded at position a of a buffer
RoundNo(msgs, a) == Cardinality({b \in ToolRounds(msgs) : b <= a})

\* C9: a call of an unregistered tool, or of a registered tool that fails,
\* never ends the invocation with an exception: its tool-result turn carries
\* an error text with the call's id and name, the next call of the same round
\* is executed after it, and after the round a further model call is made
\* when the budget allows.
C9_ToolErrorsAreRecovered ==
    \A r \in Requests :
        LET msgs == messages[r]
            RS == ToolRounds(msgs)
        IN /\ result[r].kind = "raised"
              => result[r].value \in {"ValueError", "ModelCallFailure"}
           /\ \A j \in 1..Len(msgs) :
                (msgs[j].role = "tool" /\ msgs[j].name \notin DefaultTools)
                => msgs[j].content = "Error: tool not found"
           /\ \A j \in 1..Len(msgs) :
                (msgs[j].role = "tool" /\ msgs[j].content # "ok")
                => LET a == SetMax({b \in RS : b < j})
                       tc == msgs[a].tool_calls
                       i == j - a
                   IN /\ msgs[j].tool_call_id = tc[i].id
                      /\ msgs[j].name = tc[i].name
                      /\ i < Len(tc)
                         => \/ /\ j < Len(msgs)
                               /\ msgs[j + 1].role = "tool"
                               /\ msgs[j + 1].tool_call_id = tc[i + 1].id
                            \/ /\ j = Len(msgs)
                               /\ pc[r] = "tool"
                               /\ running[r] = {i + 1}
                      /\ (i = Len(tc) /\ RoundNo(msgs, a) < max_iterations)
                         => modelCalls[r] > RoundNo(msgs, a)

\* an unknown tool and then a failing tool in one round, and the next model
\* call under way
C9_Witness ==
    \E r \in Requests :
        /\ pc[r] = "chat"
        /\ modelCalls[r] = 2
        /\ LET n == Len(messages[r])
           IN /\ n >= 3
              /\ messages[r][n - 1].role = "tool"
              /\ messages[r][n - 1].name = "unknown_tool"
              /\ messages[r][n - 1].content = "Error: tool not found"
              /\ messages[r][n].role = "tool"
              /\ messages[r][n].name = "write_file"
              /\ messages[r][n].content = "Error: tool failed"

\* C10: a model call that fails is the last thing the invocation does: the
\* failure reaches the caller, no content is returned, no model call or tool
\* execution is outstanding, nothing was appended to the session and nothing
\* was saved, so the persisted session is the history the invocation loaded.
C10_ModelFailurePropagates ==
    \A r \in Requests : \A i \in 1..Len(replies[r]) :
        replies[r][i].kind = "failed"
        => /\ i = Len(replies[r])
           /\ pc[r] = "raised"
           /\ result[r] = Raised("ModelCallFailure")
           /\ modelCalls[r] = i
           /\ running[r] = {}
           /\ saves[r] = <<>>
           /\ session[r].messages = LoadedHistory(r)
           /\ LET persisted == store[get_workspace(user[r])]
              IN IF session[r].key \in DOMAIN persisted
                 THEN persisted[session[r].key] = LoadedHistory(r)
                 ELSE LoadedHistory(r) = <<>>

\* the second model call of an invocation with an earlier history failed,
\* after a round of tool calls
C10_Witness ==
    \E r \in Requests :
        /\ pc[r] = "raised"
        /\ Len(replies[r]) = 2
        /\ replies[r][1].kind = "tools"
        /\ replies[r][2].kind = "failed"
        /\ Len(LoadedHistory(r)) = 2

-----------------------------------------------------------------------------
(* The retrying invocation wrapper and generate_report_now                  *)
(* (RetrySpec, RaceSpec)                                                    *)

\* the waits of a linear backoff after k failed attempts
LinearWaits(delay, k) == [i \in 1..k |-> delay * i]

\* C11: with max_retries = n >= 1, as long as every attempt entered has
\* failed, the wrapper has waited retry_delay * i after the i-th failure
\* and is asleep before the next attempt; after the n-th failure it has
\* made exactly n attempts, has waited n - 1 times (not after the n-th) and
\* has raised the aggregate error that carries the exception of the n-th
\* attempt.  It raises in no other case.
C11_ExhaustedRetriesRaiseLastCause ==
    LET n == gen.max_retries
        k == Len(retry.errors)
    IN  /\ (n >= 1 /\ retry.pc # "idle" /\ k = retry.attempts) =>
               /\ k <= n
               /\ k < n => /\ retry.pc = "sleep"
                           /\ retry.waits = LinearWaits(gen.retry_delay, k)
               /\ k = n => /\ retry.pc = "raised"
                           /\ retry.waits = LinearWaits(gen.retry_delay, n - 1)
                           /\ retry.result.kind = "raised"
                           /\ retry.result.value =
                                  Aggregate(n, retry.errors[n])
        /\ (n >= 1 /\ retry.pc = "raised") => k = n /\ retry.attempts = n

\* three attempts have failed, the last for another reason than the first,
\* and the wrapper has raised
C11_Witness ==
    /\ gen.max_retries = 3
    /\ gen.retry_delay = 2
    /\ retry.pc = "raised"
    /\ retry.attempts = 3
    /\ retry.errors[1] # retry.errors[3]

\* C12: the wrapper never enters more than max_retries attempts, and once
\* the process_direct call of an attempt has returned, the wrapper has
\* returned exactly that content (also the fallback message and the empty
\* text), every earlier attempt has raised, and no attempt was entered and
\* no wait made since.
C12_FirstCompletedAttemptReturns ==
    /\ retry.attempts <= gen.max_retries
    /\ (retry.pc # "idle" /\ pc["r1"] = "done") =>
           /\ retry.pc = "returned"
           /\ retry.result = result["r1"]
           /\ retry.attempts = Len(retry.errors) + 1
           /\ Len(retry.waits) = Len(retry.errors)
    /\ (retry.pc = "returned" /\ gen.agent_loop) => pc["r1"] = "done"

\* the second attempt returned the fallback message after the first failed
C12_Witness ==
    /\ retry.pc = "returned"
    /\ retry.attempts = 2
    /\ Len(retry.errors) = 1
    /\ retry.result = Returned(Fallback)

\* C13 as claimed: whenever the generator was constructed without an agent
\* loop, for every max_retries, a call of the wrapper returns the
\* placeholder report after one iteration, without a wait and without
\* raising.
C13_DegradedModeReturnsPlaceholder ==
    (~gen.agent_loop /\ report.ran) =>
        /\ retry.pc = "returned"
        /\ retry.result = Returned(generate_mock_report(retry.report_type,
                                                        retry.user_id))
        /\ retry.attempts = 1
        /\ retry.waits = <<>>

\* C14 as claimed: an attempt that failed with the ValueError of
\* switch_workspace (the workspace of the tenant does not exist) is the
\* last attempt: the wrapper has raised, without a wait after that failure.
C14_TenantNotFoundIsNotRetried ==
    \A i \in 1..Len(retry.errors) :
        retry.errors[i].type = "ValueError" =>
            /\ retry.pc = "raised"
            /\ retry.attempts = i
            /\ Len(retry.waits) = i - 1

\* C15 as claimed: generate_report_now returns an id exactly when the
\* generator ran and reported success; it returns None when the tenant has
\* no configuration and when the generator reports failure.
C15_ReportIdOnlyOnSuccess ==
    report.pc = "done" =>
        (report.ret # None <=> (report.ran /\ report.outcome.success))

-----------------------------------------------------------------------------
(* Workspaces and configurations on disk (FsSpec, PathSpec) *)

\* the workspace directory of u, as a path of the tree
WorkspaceOf(u) == Parts(get_workspace_path(u))

\* the workspace schema: the four standard subdirectories, the four
\* standard documents and memory/MEMORY.md
HasSchema(d, u) ==
    /\ is_dir(d, WorkspaceOf(u))
    /\ \A n \in STANDARD_DIRS : is_dir(d, WorkspaceOf(u) \o <<n>>)
    /\ \A f \in STANDARD_FILES : is_file(d, WorkspaceOf(u) \o <<f>>)
    /\ is_file(d, WorkspaceOf(u) \o <<"memory", "MEMORY.md">>)

\* the configuration get_config(u) would return from tree d
ConfigOf(d, u) == get_config(d, u, clock).ret

\* C16: after create_workspace(u) returns, for every id u and every prior
\* state of the tree, user_<u> exists with the four standard
\* subdirectories, the four standard documents and memory/MEMORY.md, and
\* its config.json parses into a configuration with user_id = u, four empty
\* watchlist sequences and the default preferences; the call does not raise.
C16_CreateGivesStandardWorkspace ==
    lastOp.op = "create_workspace" =>
        /\ lastOp.raised = Ok
        /\ workspace_exists(dirs, lastOp.user_id)
        /\ HasSchema(disk, lastOp.user_id)
        /\ ConfigOf(disk, lastOp.user_id) # NoConfig
        /\ ConfigOf(disk, lastOp.user_id).user_id = lastOp.user_id
        /\ \A f \in WatchlistFields :
               ConfigOf(disk, lastOp.user_id).watchlist[f] = <<>>
        /\ ConfigOf(disk, lastOp.user_id).preferences = DefaultPreferences

\* create_workspace has run on a workspace that held a saved configuration
\* with a non-empty watchlist
C16_Witness ==
    /\ lastOp.op = "create_workspace"
    /\ lastOp.raised = Ok
    /\ is_file(lastOp.before, WorkspaceOf(lastOp.user_id) \o <<"config.json">>)
    /\ lastOp.before[WorkspaceOf(lastOp.user_id) \o <<"config.json">>]
            .content.watchlist.stocks # <<>>

\* C17 as claimed: in every reachable state, after any sequence of
\* WorkspaceManager and UserConfigManager operations on the same base path,
\* workspace_exists(u) holds only if the workspace was created by
\* create_workspace or clone_template and not deleted since, and whenever it
\* holds the standard documents and subdirectories are present.
C17_ExistingWorkspacesWereCreated ==
    \A u \in PlainIds :
        workspace_exists(dirs, u) => (u \in made /\ HasSchema(disk, u))

\* C18 as claimed: after the delete endpoint has run delete_workspace(u) and
\* then UserConfigManager.delete_user(u), workspace_exists(u) is false,
\* get_config(u) returns None, u is absent from list_users and
\* list_workspaces, and switch_workspace(u) fails with ValueError.
C18_DeleteRemovesWorkspaceAndConfig ==
    (lastOp.op = "api_delete_user" /\ lastOp.raised = Ok) =>
        /\ ~workspace_exists(dirs, lastOp.user_id)
        /\ ConfigOf(disk, lastOp.user_id) = NoConfig
        /\ lastOp.user_id \notin list_users(disk)
        /\ lastOp.user_id \notin list_workspaces(disk)
        /\ switch_workspace(InitLoop, 0, dirs, lastOp.user_id).outcome = "ValueError"

\* the configuration an update of record rec with data must leave
Updated(config, rec, data, now) ==
    [config EXCEPT ![rec] = [f \in DOMAIN @ |-> IF f \in DOMAIN data THEN data[f]
                                                ELSE @[f]],
                   !.updated_at = now]

\* C19 as claimed: update_watchlist(u, d) and update_preferences(u, d) on a
\* tenant with a configuration replace exactly the named sub-fields that
\* exist, ignore unknown keys, leave every other field unchanged, refresh
\* updated_at, persist and return the result; for a tenant with no
\* configuration they return None and change nothing.
C19_UpdatesReplaceNamedFieldsOnly ==
    lastOp.op \in {"update_watchlist", "update_preferences"} =>
        LET u == lastOp.user_id
            rec == IF lastOp.op = "update_watchlist" THEN "watchlist"
                   ELSE "preferences"
            old == get_config(lastOp.before, u, lastOp.at)
        IN  IF old.raised # Ok \/ old.ret = NoConfig
            THEN /\ lastOp.ret = NoConfig
                 /\ disk = lastOp.before
            ELSE /\ lastOp.raised = Ok
                 /\ lastOp.ret = Updated(old.ret, rec, lastOp.arg, lastOp.at)
                 /\ ConfigOf(disk, u) = lastOp.ret

\* the operations that are applied to one tenant
TenantOps == {"create_workspace", "delete_workspace", "get_config",
              "create_user", "update_watchlist", "update_preferences",
              "save_config", "delete_user", "api_delete_user"}

\* C20 as claimed: for any two distinct tenant ids u # v, an operation
\* applied to u leaves the workspace content and the persisted configuration
\* of a tenant v that has a workspace and a configuration unchanged, and v
\* reads back only values written for v.
C20_TenantsAreIsolated ==
    lastOp.op \in TenantOps =>
        \A v \in Ids \ {lastOp.user_id} :
            (HasSchema(lastOp.before, v) /\ ConfigOf(lastOp.before, v) # NoConfig) =>
                /\ Subtree(disk, WorkspaceOf(v))
                       = Subtree(lastOp.before, WorkspaceOf(v))
                /\ ConfigOf(disk, v) = ConfigOf(lastOp.before, v)
                /\ ConfigOf(disk, v) # NoConfig => ConfigOf(disk, v).user_id = v

Created == {u \in Ids : u \in made \/ ConfigOf(disk, u) # NoConfig}

\* C27 as claimed: list_workspaces and list_users return one entry per
\* tenant that was created and not deleted, under the id that was passed to
\* create_workspace or create_user, for every id, also one that contains
\* "user_".
C27_ListsReportCreatedIds ==
    /\ list_users(disk) = Created
    /\ list_workspaces(disk) = Created

-----------------------------------------------------------------------------
(* Sessions and the shared slot under concurrent requests *)

\* the history persisted for the session of request r in the workspace of
\* its tenant
Persisted(r) == store[get_workspace(user[r])][session[r].key]

\* C23: nothing serialises two invocations of the same tenant and key: each
\* builds its session from the history persisted at its own start and saves
\* it whole, so once both have ended the persisted history is the session
\* of one of them (the last save wins), and when both had loaded the same
\* history it holds the two turns of one invocation only.
C23_LastSaveWins ==
    \A r \in Requests, o \in Requests :
        (r # o /\ pc[r] = "done" /\ pc[o] = "done" /\ user[r] = user[o]) =>
            /\ session[r].key = session[o].key
            /\ Persisted(r) \in {session[r].messages, session[o].messages}
            /\ LoadedHistory(r) = LoadedHistory(o) =>
                   Len(Persisted(r)) = Len(LoadedHistory(r)) + 2

\* both invocations of one tenant have ended after loading the same
\* history, and the persisted history lacks the turns of r1
C23_Witness ==
    /\ pc["r1"] = "done" /\ pc["r2"] = "done"
    /\ user["r1"] = user["r2"]
    /\ LoadedHistory("r1") = LoadedHistory("r2")
    /\ Persisted("r2") = session["r2"].messages
    /\ \A i \in 1..Len(Persisted("r2")) :
           Persisted("r2")[i] # Msg("user", Content("r1"))

\* request r2, for another tenant than r1, has switched the slot while r1
\* was suspended
Displaced ==
    /\ Entered("r2")
    /\ user["r2"] # user["r1"]

\* C29: once the switch_workspace of a request for tenant B has run while
\* the process_direct of a request for tenant A was suspended, the slot
\* holds components bound to B's workspace, every tool execution A issues
\* from then on goes through the registry bound to B, and A saves its
\* session through B's session store, into B's workspace.
C29_ResumedRequestUsesNewTenant ==
    [][Displaced =>
        /\ loop.tools.ws = get_workspace(user["r2"])
        /\ loop.sessions.ws = get_workspace(user["r2"])
        /\ (pc'["r1"] = "tool" /\ running'["r1"] # running["r1"]) =>
               toolReg'["r1"].ws = get_workspace(user["r2"])
        /\ saves'["r1"] # saves["r1"] =>
               /\ saves'["r1"][Len(saves'["r1"])].via.ws = get_workspace(user["r2"])
               /\ store'[get_workspace(user["r2"])][session'["r1"].key]
                      = session'["r1"].messages
    ]_vars

\* r1 was displaced, then ran a tool and ended: the tool went through the
\* displacing tenant's registry and the session into its store
C29_Witness ==
    /\ Displaced
    /\ pc["r1"] = "done"
    /\ toolReg["r1"].ws = get_workspace(user["r2"])
    /\ saves["r1"][1].via.ws = get_workspace(user["r2"])
    /\ session["r1"].key \in DOMAIN store[get_workspace(user["r2"])]

\* C21 as claimed: process_for_user uses 'user_<t>:default' when no key is
\* given, keeps a key that starts with 'user_<t>:', and prefixes any other
\* key k to 'user_<t>:k'; naming a key twice gives the same key; and for any
\* two distinct tenant ids and any keys given, also the same one, the keys
\* used differ.
C21_KeysAreNamespaced ==
    /\ \A i \in 1..Len(named) :
           LET n == named[i]
               prefix == "user_" \o n.user_id \o ":"
           IN  /\ n.given = NoText => n.key = prefix \o "default"
               /\ (n.given # NoText /\ StartsWith(n.given, prefix)) => n.key = n.given
               /\ (n.given # NoText /\ ~StartsWith(n.given, prefix))
                      => n.key = prefix \o n.given
               /\ n.again = n.key
    /\ \A i \in 1..Len(named), j \in 1..Len(named) :
           named[i].user_id # named[j].user_id => named[i].key # named[j].key

\* C25 as claimed: the tools are bound, when the registry is constructed, to
\* the workspace of the tenant that is active then: after a switch from
\* tenant A to tenant B, no execution of a file tool or of the shell tool
\* through the registry the slot holds reads or writes inside A's workspace.
C25_ToolsStayInActiveWorkspace ==
    (/\ lastSwitch.outcome = "switched"
     /\ lastSwitch.before.current_workspace # NoPath
     /\ lastExec.via = loop.tools
     /\ lastExec.via # NoObj)
    => lastExec.touched # lastSwitch.before.current_workspace

\* C24: save_config writes the whole record: whatever other writers have
\* saved since the configuration was read, after a save the persisted
\* configuration is the object that was saved (with updated_at refreshed),
\* and the save does not raise; what another writer had changed and saved in
\* between is gone.
C24_LastWriterWins ==
    lastOp.op = "save_config" =>
        /\ lastOp.raised = Ok
        /\ ConfigOf(disk, lastOp.user_id)
               = [lastOp.arg EXCEPT !.updated_at = lastOp.at]

\* both writers read the configuration of one tenant before either saved;
\* w2 changed the watchlist and saved first, w1 changed the preferences and
\* saved last: the persisted watchlist is the one w1 had read
C24_Witness ==
    /\ copies["w1"].pc = "saved" /\ copies["w2"].pc = "saved"
    /\ copies["w1"].config.user_id = copies["w2"].config.user_id
    /\ copies["w2"].config.watchlist.stocks # <<>>
    /\ lastOp.arg = [copies["w1"].config EXCEPT !.updated_at = lastOp.arg.updated_at]
    /\ lastOp.raised = Ok
    /\ ConfigOf(disk, lastOp.user_id).watchlist.stocks = <<>>
    /\ ConfigOf(disk, lastOp.user_id).preferences.language = "en"

\* the turns of a sequence of returned invocations, in order
RECURSIVE Turns(_)
Turns(entries) ==
    IF entries = <<>> THEN <<>> ELSE Head(entries).turns \o Turns(Tail(entries))

\* the history tenant u must have under key k: what was persisted at the
\* start, then the turns of the invocations on (u, k) that returned
Expected(u, k) ==
    LET earlier == EarlierSessions(get_workspace(u))
    IN  (IF k \in DOMAIN earlier THEN earlier[k] ELSE <<>>)
        \o Turns(SelectSeq(log, LAMBDA e : e.user = u /\ e.key = k))

\* history h is still there, at the front of history g
Kept(h, g) == Len(h) <= Len(g) /\ SubSeq(g, 1, Len(h)) = h

\* C22: a session comes into being with the first invocation on its key and
\* only grows: when invocations run one after the other, for any tenants and
\* keys, then between invocations the history persisted for (tenant, key)
\* is the user and assistant turns of the invocations that returned on it,
\* in order, after what was persisted before; a key nothing returned on has
\* no session; and no step removes or reorders persisted turns.
C22_SessionIsTheTurnsInOrder ==
    /\ []((\A r \in Requests : pc[r] = "idle") =>
             \A u \in Provisioned, raw \in SerialKeys :
                 LET k == session_key_for(u, raw)
                     persisted == store[get_workspace(u)]
                 IN  IF k \in DOMAIN persisted
                     THEN persisted[k] = Expected(u, k)
                     ELSE Expected(u, k) = <<>>)
    /\ [][\A p \in Paths : \A k \in DOMAIN store[p] :
               /\ k \in DOMAIN store'[p]
               /\ Kept(store[p][k], store'[p][k])]_vars

\* two invocations on tenant a's default key have returned, with an
\* invocation for another tenant in between, after the earlier history
C22_Witness ==
    /\ \A r \in Requests : pc[r] = "idle"
    /\ Len(log) = 3
    /\ log[1].user = "a" /\ log[2].user = "b" /\ log[3].user = "a"
    /\ log[1].key = default_session_key("a") /\ log[3].key = log[1].key
    /\ log[1].turns # log[3].turns
    /\ Len(store[get_workspace("a")][default_session_key("a")]) = 6

-----------------------------------------------------------------------------
(* What an invocation does before its first model call *)

\* the tools that carry an addressing context
ContextAware == {"message", "spawn", "cron"}

\* the positions in the calls of request r of the events of kind ev
At(r, ev) == {i \in 1..Len(trace[r]) : trace[r][i].ev = ev}

\* C28: for every request that enters process_direct, set_context is called
\* exactly once on each of the message, spawn and cron tools the registry
\* holds, with the channel and the chat id of that request, before the first
\* model call and before any tool execution; a tool that is not registered
\* gets no call.
C28_ContextSetOncePerRequest ==
    \A r \in Requests :
        (Entered(r) /\ result[r] # Raised("RuntimeError")) =>
            /\ \A name \in ContextAware :
                   LET sets == {i \in At(r, "set_context") : trace[r][i].name = name}
                   IN  Cardinality(sets) = IF name \in Registered(loop) THEN 1 ELSE 0
            /\ \A i \in At(r, "set_context") :
                   /\ trace[r][i].channel = Channel(r)
                   /\ trace[r][i].chat_id = chat_id_for(user[r], ChatId(r))
                   /\ \A j \in At(r, "chat") \cup At(r, "execute") : i < j

\* with a cron service: r1, which passed no chat id, has run a tool and
\* ended, and r2, which named a channel and a chat, has entered
C28_Witness ==
    /\ loop.cron_service
    /\ pc["r1"] = "done"
    /\ At("r1", "execute") # {}
    /\ Cardinality(At("r1", "set_context")) = 3
    /\ Entered("r2")
    /\ \E i \in At("r2", "set_context") : trace["r2"][i].chat_id = ChatId("r2")

\* the first call of kind ev request r made
First(r, ev) == trace[r][CHOOSE i \in At(r, ev) : \A j \in At(r, ev) : i <= j]

\* C30: process_for_user runs from switch_workspace to the first model call
\* without a suspension point, so however requests are interleaved, the
\* session a request obtains comes from the session store of its own
\* tenant, under its own key, the history it loads is the one persisted
\* there, and the tool definitions of its first model call come from the
\* registry of its own tenant.
C30_StartBelongsToOwnTenant ==
    /\ [](\A r \in Requests :
             (Entered(r) /\ result[r] # Raised("RuntimeError")) =>
                 /\ First(r, "get_or_create").on.kind = "SessionManager"
                 /\ First(r, "get_or_create").on.ws = get_workspace(user[r])
                 /\ First(r, "get_or_create").name
                        = session_key_for(user[r], SessionKey(r))
                 /\ session[r].key = session_key_for(user[r], SessionKey(r))
                 /\ At(r, "chat") # {} =>
                        /\ First(r, "chat").on.kind = "ToolRegistry"
                        /\ First(r, "chat").on.ws = get_workspace(user[r]))
    /\ [][\A r \in Requests :
             (pc[r] = "idle" /\ pc'[r] \in {"chat", "done"}) =>
                 LET own == store[get_workspace(user'[r])]
                     k == session_key_for(user'[r], SessionKey(r))
                 IN  LoadedHistory(r)' = IF k \in DOMAIN own THEN own[k] ELSE <<>>]_vars

\* a request for tenant b has started while a request for tenant a, which
\* had loaded a's earlier history, was suspended at its model call
C30_Witness ==
    /\ user["r1"] = "a" /\ user["r2"] = "b"
    /\ pc["r1"] = "chat" /\ pc["r2"] = "chat"
    /\ loop.current_user_id = "b"
    /\ Len(LoadedHistory("r1")) = 2
    /\ First("r2", "chat").on.ws = get_workspace("b")

-----------------------------------------------------------------------------
(* Report artifacts (ReportSpec) *)

\* the reports/ directory of u and the files below it
ReportsDir(u) == Parts(get_workspace_path(u)) \o <<"reports">>
ReportFiles(d, u) ==
    [p \in {x \in DOMAIN d : IsPrefix(ReportsDir(u), x) /\ x # ReportsDir(u)}
        |-> d[p]]

\* a step of generate_report: the call, a resumption, the return
ReportStep == report' # report \/ retry' # retry

\* C31: every step of generate_report leaves the call running or returns
\* a dict, never an exception.  Without a configuration, and when the
\* wrapper raised after its attempts, the dict has success = False and an
\* error, and no step of the call changes what is below the tenant's
\* reports/ directory.  A dict with success = True names the id
\* <type>_<timestamp>, and the step that returns it adds below reports/
\* exactly <id>.md, holding the content the wrapper returned, and
\* <id>.json, and changes no other file there.
C31_ReportFilesOnlyOnSuccess ==
    [][ReportStep =>
        LET u == report'.user_id
            out == report'.outcome
            id == out.report_id
            md == ReportsDir(u) \o <<id \o ".md">>
            js == ReportsDir(u) \o <<id \o ".json">>
            old == ReportFiles(disk, u)
            new == ReportFiles(disk', u)
        IN  /\ report'.pc \in {"running", "done"}
            /\ report'.pc = "running" => new = old
            /\ report'.pc = "done" =>
                /\ out \in {Failure(out.error), Success(id)}
                /\ (~report'.had_config \/ retry'.pc = "raised") => ~out.success
                /\ retry'.pc = "raised" => out.error = retry'.result.value
                /\ ~out.success => out.error # NoError /\ new = old
                /\ out.success =>
                    /\ id = report_id_of(report'.report_type, clock)
                    /\ DOMAIN new = DOMAIN old \cup {md, js}
                    /\ new[md] = File(retry'.result.value)
                    /\ is_file(disk', js)
                    /\ \A p \in DOMAIN old \ {md, js} : new[p] = old[p]]_vars

\* the third attempt succeeded after two failed ones, and the two files of
\* the report are the only ones below reports/
C31_Witness ==
    /\ report.pc = "done"
    /\ report.outcome.success
    /\ retry.attempts = 3
    /\ DOMAIN ReportFiles(disk, report.user_id) =
            {ReportsDir(report.user_id) \o <<report.outcome.report_id \o ext>> :
                ext \in {".md", ".json"}}

-----------------------------------------------------------------------------
(* Gateway mode (GatewaySpec) *)

\* the consumed messages whose processing is over
Handled ==
    {gw.consumed[i] : i \in {j \in 1..Len(gw.consumed) :
                                ~(gw.pc = "processing" /\ j = Len(gw.consumed))}}

\* the outbound messages published for message m
Answers(m) == {i \in 1..Len(outbox) : outbox[i].re = m.slot}

\* C32 as claimed: for every consumed message whose processing is over
\* there is exactly one outbound message, on the channel and chat id of the
\* message, carrying the response of the loop when it returned one and the
\* error text when it raised; and run is then waiting for the next message.
C32_OneOutboundPerInbound ==
    /\ gw.pc \in {"waiting", "processing"}
    /\ \A m \in Handled :
           /\ Cardinality(Answers(m)) = 1
           /\ \A i \in Answers(m) :
                  /\ outbox[i].channel = m.channel
                  /\ outbox[i].chat_id = m.chat_id
                  /\ outbox[i].content =
                         IF pc[m.slot] = "raised"
                         THEN ErrorText(result[m.slot].value)
                         ELSE result[m.slot].value

\* C33 as claimed: for every tenant id t and every key given, the tenant
\* id run extracts from the session key process_for_user produces for t,
\* for a message that carries no user_id in its metadata, is t.
C33_KeyRoutesToItsTenant ==
    \A i \in 1..Len(named) : named[i].routed = named[i].user_id

-----------------------------------------------------------------------------
(* Cloning and re-creating workspaces (FsSpec) *)

\* C34 as claimed: after clone_template(s, t), for every pair of ids: when
\* the source existed the call returned, t has the workspace schema, its
\* AGENTS.md, SOUL.md and HEARTBEAT.md are the source's, its USER.md and
\* config.json are those of a fresh workspace of t, and the source tree is
\* as before; when the source did not exist the call raised ValueError and
\* the tree is as before.
C34_CloneCopiesPersonaOnly ==
    lastOp.op = "clone_template" =>
        LET s == lastOp.arg.source
            t == lastOp.user_id
            before == lastOp.before
            fresh == StandardContent(WorkspaceOf(t), t, NoData, lastOp.at)
        IN  IF exists(before, WorkspaceOf(s))
            THEN /\ lastOp.raised = Ok
                 /\ HasSchema(disk, t)
                 /\ \A f \in {"AGENTS.md", "SOUL.md", "HEARTBEAT.md"} :
                        is_file(before, WorkspaceOf(s) \o <<f>>) =>
                            disk[WorkspaceOf(t) \o <<f>>]
                                = before[WorkspaceOf(s) \o <<f>>]
                 /\ \A f \in {"USER.md", "config.json"} :
                        disk[WorkspaceOf(t) \o <<f>>]
                            = fresh[WorkspaceOf(t) \o <<f>>]
                 /\ ConfigOf(disk, t).user_id = t
                 /\ Subtree(disk, WorkspaceOf(s)) = Subtree(before, WorkspaceOf(s))
            ELSE /\ lastOp.raised = "ValueError"
                 /\ disk = before

\* the tree of a workspace of u that create_workspace has just built
Fresh(u, template_data, now) ==
    (WorkspaceOf(u) :> Dir) @@ StandardContent(WorkspaceOf(u), u, template_data, now)

-----------------------------------------------------------------------------
(* The shared slot (SlotSpec) *)

\* no tenant is active in slot l
Unset(l) ==
    /\ l.current_user_id = NoUser
    /\ l.current_workspace = NoPath
    /\ Components(l) = {NoObj}

\* slot l holds a tenant, its workspace path and four components of the
\* four classes that were constructed for that path
Bound(l) ==
    /\ l.current_user_id # NoUser
    /\ l.current_workspace = get_workspace(l.current_user_id)
    /\ l.context.kind = "ContextBuilder"
    /\ l.sessions.kind = "SessionManager"
    /\ l.tools.kind = "ToolRegistry"
    /\ l.subagents.kind = "SubagentManager"
    /\ \A c \in Components(l) : c.ws = l.current_workspace

\* C36: in every state (the steps of the model end at suspension points
\* or between operations) the slot is either unset or bound to one tenant
\* throughout, whatever switch_workspace calls were made and however they
\* ended; and a process_direct call made while no workspace is active
\* raises RuntimeError without a model call, without a session and without
\* a change to the slot or to the session store.
C36_SlotIsConsistent ==
    /\ [](Unset(loop) \/ Bound(loop))
    /\ [][(pc["r1"] = "idle" /\ pc'["r1"] # "idle"
              /\ loop.current_workspace = NoPath) =>
            /\ pc'["r1"] = "raised"
            /\ result'["r1"] = Raised("RuntimeError")
            /\ modelCalls'["r1"] = 0
            /\ session'["r1"] = NoSession
            /\ trace'["r1"] = <<>>
            /\ loop' = loop
            /\ store' = store]_vars

\* process_direct was called before any switch and raised; a switch then
\* succeeded and a later one, to a tenant without workspace, failed and left
\* the slot with the earlier tenant
C36_Witness ==
    /\ pc["r1"] = "raised"
    /\ result["r1"] = Raised("RuntimeError")
    /\ lastSwitch.outcome = "ValueError"
    /\ lastSwitch.before.current_user_id # NoUser
    /\ loop = lastSwitch.before
    /\ Bound(loop)

-----------------------------------------------------------------------------
(* The report session across attempts (RecoverSpec) *)

\* C37: every attempt of the wrapper starts with switch_workspace for the
\* tenant, made on the slot as it is then, and when that succeeds the loop
\* takes its session, under the key report_generation:<tenant>:<type>,
\* from the session store of the tenant's workspace; no step of an attempt
\* that does not return changes any persisted session; the step in which
\* the wrapper returns appends to that session, as it was persisted before,
\* exactly the prompt as user turn and the returned content as assistant
\* turn, and changes no other session.
C37_OnePairPerReport ==
    [][retry' # retry =>
        LET u == retry'.user_id
            t == retry'.report_type
            ws == get_workspace(u)
            key == report_session_key(u, t)
            old == IF key \in DOMAIN store[ws] THEN store[ws][key] ELSE <<>>
        IN  /\ retry'.attempts > retry.attempts =>
                /\ lastSwitch'.user = u
                /\ lastSwitch'.before = loop
                /\ lastSwitch'.outcome = "ValueError" =>
                       Len(retry'.errors) = Len(retry.errors) + 1
                /\ lastSwitch'.outcome # "ValueError" =>
                       /\ loop'.current_user_id = u
                       /\ loop'.sessions.ws = ws
                       /\ trace'["r1"][1]
                              = Event("get_or_create", loop'.sessions, key, "", "")
            /\ retry'.pc # "returned" => store' = store
            /\ retry'.pc = "returned" =>
                   store' = [store EXCEPT ![ws] =
                       (key :> old \o <<Msg("user", Prompt(u, t)),
                                        Msg("assistant", retry'.result.value)>>)
                       @@ @]]_vars

\* the third attempt returned, after a first one that failed at the model
\* call and a second one that failed at the activation, while the slot was
\* switched to another tenant in between; the report session holds one pair
C37_Witness ==
    /\ retry.pc = "returned"
    /\ retry.attempts = 3
    /\ retry.errors[1].type # "ValueError"
    /\ retry.errors[2].type = "ValueError"
    /\ switches > 0
    /\ Len(store[get_workspace(retry.user_id)]
                [report_session_key(retry.user_id, retry.report_type)]) = 2

-----------------------------------------------------------------------------
(* Configuration updates between the steps of requests (UpdateSpec) *)

\* the record of the configuration an update operation writes to
Target(op) == IF op = "update_watchlist" THEN "watchlist" ELSE "preferences"

\* the configuration fields an update of record rec does not concern
Frame(rec) == {"user_id", "created_at", "custom_data", "version",
               "watchlist", "preferences"} \ {rec}

\* C38: update_watchlist and update_preferences are single steps between
\* the steps of the requests, and every such call for a tenant with a
\* configuration that returns works on the configuration persisted by all
\* calls before it: afterwards the persisted configuration has the values
\* the call names for the fields of its record and is otherwise, but for
\* updated_at, what was persisted before, for this and every other tenant;
\* a call that raises instead leaves every persisted configuration as it
\* was.  So the sub-fields named by earlier calls stay until a later call
\* names them again.
C38_NoLostUpdate ==
    [][(/\ fsOps' # fsOps
        /\ lastOp'.op \in {"update_watchlist", "update_preferences"}
        /\ ConfigOf(disk, lastOp'.user_id) # NoConfig) =>
        LET u == lastOp'.user_id
            data == lastOp'.arg
            rec == Target(lastOp'.op)
            old == ConfigOf(disk, u)
            new == ConfigOf(disk', u)
        IN  /\ \A v \in PlainIds \ {u} : ConfigOf(disk', v) = ConfigOf(disk, v)
            /\ lastOp'.raised # Ok => new = old
            /\ lastOp'.raised = Ok =>
                   /\ \A f \in DOMAIN old[rec] :
                          new[rec][f] = IF f \in DOMAIN data THEN data[f]
                                        ELSE old[rec][f]
                   /\ \A f \in Frame(rec) : new[f] = old[f]
                   /\ new.updated_at = clock]_vars

\* two calls for tenant a were made while a request was suspended, the
\* first for the watchlist and the second for the preferences, and the
\* persisted configuration has the fields of both
C38_Witness ==
    /\ fsOps = 2
    /\ pc["r1"] \in {"chat", "tool"}
    /\ lastOp.op = "update_preferences"
    /\ lastOp.user_id = "a"
    /\ ConfigOf(lastOp.before, "a").watchlist.stocks = <<"AAPL", "TSLA">>
    /\ ConfigOf(disk, "a").watchlist.stocks = <<"AAPL", "TSLA">>
    /\ ConfigOf(disk, "a").watchlist.influencers = <<"@elonmusk">>
    /\ ConfigOf(disk, "a").preferences.language = "en"
    /\ ConfigOf(disk, "a").preferences.report_frequency = "weekly"

-----------------------------------------------------------------------------
(* The addressing context at a tool dispatch (ContextSpec) *)

\* the channel and chat id request r passed to process_direct
OwnContext(r) ==
    [channel |-> Channel(r), chat_id |-> chat_id_for(user[r], ChatId(r))]

\* request r issues a tool execution in this step
Dispatches(r) ==
    /\ Len(trace'[r]) > Len(trace[r])
    /\ trace'[r][Len(trace'[r])].ev = "execute"

\* C39: whenever a request issues a tool execution, the message, spawn and
\* cron tools of the registry it is issued on hold the channel and chat id
\* of that request.
C39_DispatchUnderOwnContext ==
    [][\A r \in Requests :
          Dispatches(r) =>
              \A name \in {"message", "spawn", "cron"} \cap Registered(loop') :
                  Held(addressing', trace'[r][Len(trace'[r])].on, name)
                      = OwnContext(r)]_vars

-----------------------------------------------------------------------------
(* Configuration round trips (RoundTripSpec) *)

\* C40: UserConfig.from_dict(c.to_dict()) is c, and after a save_config(c)
\* that returned, get_config(c.user_id) returns c with updated_at set to
\* the time of the save: user_id, created_at, watchlist, preferences,
\* custom_data and version are those of c.
C40_ConfigRoundTrips ==
    /\ lastOp.op = "from_dict" => lastOp.ret = lastOp.arg
    /\ (lastOp.op = "save_config" /\ lastOp.raised = Ok) =>
           get_config(disk, lastOp.arg.user_id, clock).ret
               = [lastOp.arg EXCEPT !.updated_at = lastOp.at]

\* a get_config call returned a configuration that only a save_config can
\* have written: filled watchlist, changed preferences, custom data and
\* version 2.0, for the tenant id with the path separator
C40_Witness ==
    /\ lastOp.op = "get_config"
    /\ lastOp.user_id = NestedId
    /\ lastOp.ret # NoConfig
    /\ lastOp.ret.version = "2.0"
    /\ lastOp.ret.custom_data = [source |-> "test"]
    /\ lastOp.ret.watchlist.stocks = <<"AAPL", "TSLA">>
    /\ lastOp.ret.preferences.max_report_length = 800
    /\ lastOp.ret.updated_at > lastOp.ret.created_at

====
